---- MODULE Spec2Model ----
(***************************************************************************)
(* A model of the Variant binary codec: the codec primitives of            *)
(* variant_util.py, the reader of variant.py and the builder of            *)
(* variant_builder.py.                                                     *)
(*                                                                         *)
(* Python integers are unbounded.  Every Python integer that can hold a    *)
(* 64-bit or 128-bit payload is modelled as a "PyInt": its two's           *)
(* complement little-endian byte sequence of IntBytes bytes, so that       *)
(* `(value >> (8 * i)) & 0xFF` is byte i+1 of the sequence.  Sizes,        *)
(* positions, ids and offsets are ordinary integers.                       *)
(* A bytes / bytearray object is a sequence of 0..255; Python index p is   *)
(* element p + 1.                                                          *)
(***************************************************************************)
EXTENDS Integers, Sequences, FiniteSets, TLC

VARIABLES builder, frames, appended, last, variant, sz, shred, step

vars == <<builder, frames, appended, last, variant, sz, shred, step>>

(***************************************************************************)
(* Bounds of the model.                                                    *)
(***************************************************************************)
IntBytes == 17
MaxStartPos == 2
MaxValues == 4
MaxDepth == 2

(***************************************************************************)
(* Constants of variant_util.py.                                           *)
(***************************************************************************)
BASIC_TYPE_BITS == 2
BASIC_TYPE_MASK == 3
TYPE_INFO_MASK == 63
MAX_SHORT_STR_SIZE == 63
PRIMITIVE == 0
SHORT_STR == 1
OBJECT == 2
ARRAY == 3
NULL == 0
T_TRUE == 1
T_FALSE == 2
INT1 == 3
INT2 == 4
INT4 == 5
INT8 == 6
DOUBLE == 7
DECIMAL4 == 8
DECIMAL8 == 9
DECIMAL16 == 10
DATE == 11
TIMESTAMP == 12
TIMESTAMP_NTZ == 13
FLOAT == 14
BINARY == 15
LONG_STR == 16
UUID == 20
VERSION == 1
VERSION_MASK == 15
U8_MAX == 255
U16_MAX == 65535
U24_MAX == 16777215
U24_SIZE == 3
U32_SIZE == 4
SIZE_LIMIT == U24_MAX + 1
MAX_DECIMAL4_PRECISION == 9
MAX_DECIMAL8_PRECISION == 18
MAX_DECIMAL16_PRECISION == 38
INITIAL_CAPACITY == 128

(***************************************************************************)
(* Python integers as two's complement little-endian byte sequences.       *)
(***************************************************************************)
RECURSIVE NatBytes(_, _)
NatBytes(n, k) ==
    IF k = 0 THEN <<>> ELSE <<n % 256>> \o NatBytes(n \div 256, k - 1)

RECURSIVE AddSmall(_, _)
AddSmall(v, c) ==
    IF v = <<>> THEN <<>>
    ELSE LET t == v[1] + c IN <<t % 256>> \o AddSmall(Tail(v), t \div 256)

RECURSIVE MulSmall(_, _, _)
MulSmall(v, k, c) ==
    IF v = <<>> THEN <<>>
    ELSE LET t == v[1] * k + c IN <<t % 256>> \o MulSmall(Tail(v), k, t \div 256)

RECURSIVE DivRem(_, _)
DivRem(v, d) ==
    IF v = <<>> THEN [q |-> <<>>, r |-> 0]
    ELSE LET hi == DivRem(Tail(v), d)
             t == hi.r * 256 + v[1]
         IN [q |-> <<t \div d>> \o hi.q, r |-> t % d]

Invert(v) == [i \in 1..Len(v) |-> 255 - v[i]]
Negate(v) == AddSmall(Invert(v), 1)
IsNeg(v) == v[Len(v)] >= 128
IsZero(v) == \A i \in 1..Len(v) : v[i] = 0
Abs(v) == IF IsNeg(v) THEN Negate(v) ELSE v
PyZero == [i \in 1..IntBytes |-> 0]
FromInt(n) == IF n >= 0 THEN NatBytes(n, IntBytes) ELSE Negate(NatBytes(-n, IntBytes))
Pow2(k) == [i \in 1..IntBytes |->
              IF i = (k \div 8) + 1 THEN 2 ^ (k % 8) ELSE 0]
Sub1(v) == Negate(AddSmall(Negate(v), 1))

ULess(a, b) == \E i \in 1..Len(a) :
                  /\ a[i] < b[i]
                  /\ \A j \in (i + 1)..Len(a) : a[j] = b[j]
Less(a, b) == IF IsNeg(a) # IsNeg(b) THEN IsNeg(a) ELSE ULess(a, b)
Leq(a, b) == a = b \/ Less(a, b)

\* l & 0xFF, l & 0xFFFF, l & 0xFFFFFFFF: the low n bytes, as a non-negative int
AndLowBytes(v, n) == [i \in 1..IntBytes |-> IF i <= n THEN v[i] ELSE 0]

\* the unsigned / signed value of a little-endian byte string as a PyInt
ZeroExtend(bs) == [i \in 1..IntBytes |-> IF i <= Len(bs) THEN bs[i] ELSE 0]
SignExtend(bs) == [i \in 1..IntBytes |->
                     IF i <= Len(bs) THEN bs[i]
                     ELSE IF bs[Len(bs)] >= 128 THEN 255 ELSE 0]

(***************************************************************************)
(* Codec primitives (variant_util.py).                                     *)
(***************************************************************************)
\* a bytes / bytearray object holds values: the sequence f with every element
\* evaluated
bytearray(f) == SubSeq(f, 1, Len(f))

Slice(buf, pos, n) == [i \in 1..n |-> buf[pos + i]]

\* bytes_array[pos + i] = (value >> (8 * i)) & 0xFF for i in range(num_bytes)
write_long(bytes_array, pos, value, num_bytes) ==
    bytearray([i \in 1..Len(bytes_array) |->
        IF pos < i /\ i <= pos + num_bytes THEN value[i - pos] ELSE bytes_array[i]])

primitive_header(type_val) == type_val * (2 ^ BASIC_TYPE_BITS) + PRIMITIVE
short_str_header(size) == size * (2 ^ BASIC_TYPE_BITS) + SHORT_STR
object_header(large_size, id_size, offset_size) ==
    (IF large_size THEN 1 ELSE 0) * (2 ^ (BASIC_TYPE_BITS + 4))
      + (id_size - 1) * (2 ^ (BASIC_TYPE_BITS + 2))
      + (offset_size - 1) * (2 ^ BASIC_TYPE_BITS) + OBJECT
array_header(large_size, offset_size) ==
    (IF large_size THEN 1 ELSE 0) * (2 ^ (BASIC_TYPE_BITS + 2))
      + (offset_size - 1) * (2 ^ BASIC_TYPE_BITS) + ARRAY

check_index(pos, length) == pos >= 0 /\ pos < length

basic_type_of(value, pos) == value[pos + 1] % (BASIC_TYPE_MASK + 1)
get_type_info(value, pos) ==
    (value[pos + 1] \div (2 ^ BASIC_TYPE_BITS)) % (TYPE_INFO_MASK + 1)

\* The bytes of a bytes object are 0..255, so the "most significant byte" is
\* OR-ed in unsigned like the others: the result is the unsigned value.
read_long(bytes_array, pos, num_bytes) ==
    IF ~check_index(pos, Len(bytes_array))
         \/ ~check_index(pos + num_bytes - 1, Len(bytes_array))
    THEN [err |-> "malformed", val |-> PyZero]
    ELSE [err |-> "none", val |-> ZeroExtend(Slice(bytes_array, pos, num_bytes))]

get_long(value, pos) ==
    IF ~check_index(pos, Len(value)) THEN [err |-> "malformed", val |-> PyZero]
    ELSE IF basic_type_of(value, pos) # PRIMITIVE
         THEN [err |-> "unexpected_type", val |-> PyZero]
    ELSE LET type_info == get_type_info(value, pos) IN
         IF type_info = INT1 THEN read_long(value, pos + 1, 1)
         ELSE IF type_info = INT2 THEN read_long(value, pos + 1, 2)
         ELSE IF type_info \in {INT4, DATE} THEN read_long(value, pos + 1, 4)
         ELSE IF type_info \in {INT8, TIMESTAMP, TIMESTAMP_NTZ}
              THEN read_long(value, pos + 1, 8)
         ELSE [err |-> "unexpected_type", val |-> PyZero]

RECURSIVE LEVal(_)
LEVal(bs) == IF bs = <<>> THEN 0 ELSE bs[1] + 256 * LEVal(Tail(bs))

\* Python's result of the loop, an int without a width
read_unsigned_int(bytes_array, pos, num_bytes) == ZeroExtend(Slice(bytes_array, pos, num_bytes))

\* The same result as a number of the model.  A result of 2^31 or more is
\* written Beyond31: it is larger than every index and every size of a
\* buffer, which is all that the readers use it for.
Beyond31 == 134217728
unsigned_value(bs) == IF Len(bs) = 4 /\ bs[4] >= 128 THEN Beyond31 ELSE LEVal(bs)

\* "if result < 0: raise": result is never negative
unsigned_result(n) ==
    IF n < 0 THEN [err |-> "malformed", val |-> 0] ELSE [err |-> "none", val |-> n]

read_unsigned(bytes_array, pos, num_bytes) ==
    IF ~check_index(pos, Len(bytes_array))
         \/ ~check_index(pos + num_bytes - 1, Len(bytes_array))
    THEN [err |-> "malformed", val |-> 0]
    ELSE unsigned_result(unsigned_value(Slice(bytes_array, pos, num_bytes)))

NoHeader == [size |-> 0, id_size |-> 0, offset_size |-> 0,
             id_start |-> 0, offset_start |-> 0, data_start |-> 0]

\* the header fields handed to the handler, once the size has been read
object_header_fields(pos, size, size_bytes, id_size, offset_size) ==
    IF size.err # "none" THEN [err |-> size.err, h |-> NoHeader]
    ELSE [err |-> "none",
          h |-> [size |-> size.val, id_size |-> id_size, offset_size |-> offset_size,
                 id_start |-> pos + 1 + size_bytes,
                 offset_start |-> pos + 1 + size_bytes + size.val * id_size,
                 data_start |-> pos + 1 + size_bytes + size.val * id_size
                                  + (size.val + 1) * offset_size]]

\* the header fields that handle_object passes to its handler
handle_object(value, pos) ==
    IF ~check_index(pos, Len(value)) THEN [err |-> "malformed", h |-> NoHeader]
    ELSE IF basic_type_of(value, pos) # OBJECT THEN [err |-> "unexpected_type", h |-> NoHeader]
    ELSE LET type_info == get_type_info(value, pos)
             large_size == (type_info \div 16) % 2 # 0
             size_bytes == IF large_size THEN U32_SIZE ELSE 1
             id_size == ((type_info \div 4) % 4) + 1
             offset_size == (type_info % 4) + 1
         IN object_header_fields(pos, read_unsigned(value, pos + 1, size_bytes), size_bytes,
                                 id_size, offset_size)

array_header_fields(pos, size, size_bytes, offset_size) ==
    IF size.err # "none" THEN [err |-> size.err, h |-> NoHeader]
    ELSE [err |-> "none",
          h |-> [size |-> size.val, id_size |-> 0, offset_size |-> offset_size,
                 id_start |-> 0,
                 offset_start |-> pos + 1 + size_bytes,
                 data_start |-> pos + 1 + size_bytes + (size.val + 1) * offset_size]]

handle_array(value, pos) ==
    IF ~check_index(pos, Len(value)) THEN [err |-> "malformed", h |-> NoHeader]
    ELSE IF basic_type_of(value, pos) # ARRAY THEN [err |-> "unexpected_type", h |-> NoHeader]
    ELSE LET type_info == get_type_info(value, pos)
             large_size == (type_info \div 4) % 2 # 0
             size_bytes == IF large_size THEN U32_SIZE ELSE 1
             offset_size == (type_info % 4) + 1
         IN array_header_fields(pos, read_unsigned(value, pos + 1, size_bytes), size_bytes,
                                offset_size)

\* value_size of an object or array with header fields hr: data_start - pos
\* plus the last offset
container_value_size(value, pos, hr) ==
    IF hr.err # "none" THEN [err |-> hr.err, val |-> 0]
    ELSE LET lastoff == read_unsigned(value, hr.h.offset_start + hr.h.size * hr.h.offset_size,
                                      hr.h.offset_size)
         IN IF lastoff.err # "none" THEN [err |-> lastoff.err, val |-> 0]
            ELSE [err |-> "none", val |-> hr.h.data_start - pos + lastoff.val]

value_size(value, pos) ==
    IF ~check_index(pos, Len(value)) THEN [err |-> "malformed", val |-> 0]
    ELSE LET basic_type == basic_type_of(value, pos)
             type_info == get_type_info(value, pos)
         IN IF basic_type = SHORT_STR THEN [err |-> "none", val |-> 1 + type_info]
            ELSE IF basic_type = OBJECT
                 THEN container_value_size(value, pos, handle_object(value, pos))
            ELSE IF basic_type = ARRAY
                 THEN container_value_size(value, pos, handle_array(value, pos))
            ELSE IF type_info \in {NULL, T_TRUE, T_FALSE} THEN [err |-> "none", val |-> 1]
            ELSE IF type_info = INT1 THEN [err |-> "none", val |-> 2]
            ELSE IF type_info = INT2 THEN [err |-> "none", val |-> 3]
            ELSE IF type_info \in {INT4, DATE, FLOAT} THEN [err |-> "none", val |-> 5]
            ELSE IF type_info \in {INT8, DOUBLE, TIMESTAMP, TIMESTAMP_NTZ}
                 THEN [err |-> "none", val |-> 9]
            ELSE IF type_info = DECIMAL4 THEN [err |-> "none", val |-> 6]
            ELSE IF type_info = DECIMAL8 THEN [err |-> "none", val |-> 10]
            ELSE IF type_info = DECIMAL16 THEN [err |-> "none", val |-> 18]
            ELSE IF type_info \in {BINARY, LONG_STR}
                 THEN LET n == read_unsigned(value, pos + 1, U32_SIZE) IN
                      IF n.err # "none" THEN [err |-> n.err, val |-> 0]
                      ELSE [err |-> "none", val |-> 1 + U32_SIZE + n.val]
            ELSE IF type_info = UUID THEN [err |-> "none", val |-> 17]
            ELSE [err |-> "unknown_primitive", val |-> 0]

(***************************************************************************)
(* Strings.  A str is a sequence of code points (below 0x800 in this       *)
(* model); encode('utf-8') gives one byte below 0x80 and two bytes above.  *)
(***************************************************************************)
\* encode('utf-8') of one code point
utf8_encode_char(c) ==
    IF c < 128 THEN <<c>> ELSE <<192 + (c \div 64), 128 + (c % 64)>>

\* the encoding of a string is the concatenation of the encodings of its
\* characters, here of its two halves
RECURSIVE utf8_encode(_)
utf8_encode(str) ==
    IF str = <<>> THEN <<>>
    ELSE IF Len(str) = 1 THEN utf8_encode_char(str[1])
    ELSE utf8_encode(SubSeq(str, 1, Len(str) \div 2))
         \o utf8_encode(SubSeq(str, (Len(str) \div 2) + 1, Len(str)))

IsContinuation(byte) == byte >= 128 /\ byte < 192
IsLead2(byte) == byte >= 194 /\ byte < 224

\* bytes.decode('utf-8') of at most two bytes; <<-1>> stands for
\* UnicodeDecodeError
utf8_decode_short(bs) ==
    IF bs = <<>> THEN <<>>
    ELSE IF Len(bs) = 1 THEN (IF bs[1] < 128 THEN bs ELSE <<-1>>)
    ELSE IF bs[1] < 128 THEN (IF bs[2] < 128 THEN bs ELSE <<-1>>)
    ELSE IF IsLead2(bs[1]) /\ IsContinuation(bs[2])
         THEN <<(bs[1] - 192) * 64 + (bs[2] - 128)>>
    ELSE <<-1>>

\* bytes.decode('utf-8'): the bytes are cut between two characters near the
\* middle (a continuation byte stays with the byte before it) and the two
\* parts decoded; an invalid byte in either part is an error
RECURSIVE utf8_decode(_)
utf8_decode(bs) ==
    IF Len(bs) <= 2 THEN utf8_decode_short(bs)
    ELSE LET m == Len(bs) \div 2
             cut == IF IsContinuation(bs[m + 1]) THEN m + 1 ELSE m
             left == utf8_decode(SubSeq(bs, 1, cut))
             right == utf8_decode(SubSeq(bs, cut + 1, Len(bs)))
         IN IF left = <<-1>> \/ right = <<-1>> THEN <<-1>> ELSE left \o right

\* Python's str comparison: lexicographic on code points
StrLess(a, b) ==
    \E i \in 1..(Len(b)) :
        /\ \A j \in 1..(i - 1) : j <= Len(a) /\ a[j] = b[j]
        /\ (i > Len(a) \/ a[i] < b[i])

get_metadata_key(metadata, id_val) ==
    IF ~check_index(0, Len(metadata)) THEN [err |-> "malformed", val |-> <<>>]
    ELSE LET offset_size == ((metadata[1] \div 64) % 4) + 1
             dict_size == read_unsigned(metadata, 1, offset_size)
             string_start == 1 + (dict_size.val + 2) * offset_size
             offset == read_unsigned(metadata, 1 + (id_val + 1) * offset_size, offset_size)
             next_offset == read_unsigned(metadata, 1 + (id_val + 2) * offset_size, offset_size)
         IN IF dict_size.err # "none" THEN [err |-> "malformed", val |-> <<>>]
            ELSE IF id_val >= dict_size.val THEN [err |-> "malformed", val |-> <<>>]
            ELSE IF offset.err # "none" \/ next_offset.err # "none"
                 THEN [err |-> "malformed", val |-> <<>>]
            ELSE IF offset.val > next_offset.val THEN [err |-> "malformed", val |-> <<>>]
            ELSE IF ~check_index(string_start + next_offset.val - 1, Len(metadata))
                 THEN [err |-> "malformed", val |-> <<>>]
            ELSE LET str == utf8_decode(Slice(metadata, string_start + offset.val,
                                              next_offset.val - offset.val))
                 IN IF str = <<-1>> THEN [err |-> "unicode_decode_error", val |-> <<>>]
                    ELSE [err |-> "none", val |-> str]

(***************************************************************************)
(* The reader (variant.py).  A Variant is a record [value, metadata, pos]. *)
(***************************************************************************)
BINARY_SEARCH_THRESHOLD == 32

\* Variant.__init__ without the length check of the value
variant_init_check_m(value_len, metadata_len, header) ==
    IF metadata_len < 1 \/ (header % (VERSION_MASK + 1)) # VERSION THEN "malformed"
    ELSE IF metadata_len > SIZE_LIMIT THEN "constructor_size_limit"
    ELSE "none"

\* Variant.__init__ on buffers of the given lengths, header being the first
\* byte of a non-empty metadata: "none" when the Variant is constructed
variant_init_check(value_len, metadata_len, header) ==
    IF metadata_len < 1 \/ (header % (VERSION_MASK + 1)) # VERSION THEN "malformed"
    ELSE IF metadata_len > SIZE_LIMIT \/ value_len > SIZE_LIMIT THEN "constructor_size_limit"
    ELSE "none"

\* Variant.__init__: "none" when the Variant is constructed
variant_init_err(value, metadata) ==
    variant_init_check(Len(value), Len(metadata),
                       IF Len(metadata) < 1 THEN 0 ELSE metadata[1])

NotFound == [err |-> "none", found |-> FALSE, pos |-> 0]
Raised(e) == [err |-> e, found |-> FALSE, pos |-> 0]

\* the linear scan of _find_field from index i on
RECURSIVE find_field_linear(_, _, _, _)
find_field_linear(v, key, h, i) ==
    IF i >= h.size THEN NotFound
    ELSE LET id_val == read_unsigned(v.value, h.id_start + h.id_size * i, h.id_size)
             k == get_metadata_key(v.metadata, id_val.val)
             offset == read_unsigned(v.value, h.offset_start + h.offset_size * i, h.offset_size)
         IN IF id_val.err # "none" THEN Raised(id_val.err)
            ELSE IF k.err # "none" THEN Raised(k.err)
            ELSE IF key = k.val
                 THEN IF offset.err # "none" THEN Raised(offset.err)
                      ELSE IF variant_init_err(v.value, v.metadata) # "none"
                           THEN Raised(variant_init_err(v.value, v.metadata))
                      ELSE [err |-> "none", found |-> TRUE, pos |-> h.data_start + offset.val]
            ELSE find_field_linear(v, key, h, i + 1)

\* the binary search of _find_field: the first probe calls the method
\* compare_to on the str returned by get_metadata_key; str has no such method
find_field_binary(v, key, h) ==
    LET low == 0
        high == h.size - 1
        mid == (low + high) \div 2
        id_val == read_unsigned(v.value, h.id_start + h.id_size * mid, h.id_size)
        k == get_metadata_key(v.metadata, id_val.val)
    IN IF ~(low <= high) THEN NotFound
       ELSE IF id_val.err # "none" THEN Raised(id_val.err)
       ELSE IF k.err # "none" THEN Raised(k.err)
       ELSE Raised("attribute_error")

find_field(v, key, h) ==
    IF h.size < BINARY_SEARCH_THRESHOLD THEN find_field_linear(v, key, h, 0)
    ELSE find_field_binary(v, key, h)

get_field_by_key(v, key) ==
    LET hr == handle_object(v.value, v.pos) IN
    IF hr.err # "none" THEN Raised(hr.err) ELSE find_field(v, key, hr.h)

\* get_field_at_index: [err, found, key, pos]
get_field_at_index(v, index) ==
    LET hr == handle_object(v.value, v.pos)
        h == hr.h
        id_val == read_unsigned(v.value, h.id_start + h.id_size * index, h.id_size)
        offset == read_unsigned(v.value, h.offset_start + h.offset_size * index, h.offset_size)
        k == get_metadata_key(v.metadata, id_val.val)
        none == [err |-> "none", found |-> FALSE, key |-> <<>>, pos |-> 0]
    IN IF hr.err # "none" THEN [none EXCEPT !.err = hr.err]
       ELSE IF index < 0 \/ index >= h.size THEN none
       ELSE IF id_val.err # "none" THEN [none EXCEPT !.err = id_val.err]
       ELSE IF offset.err # "none" THEN [none EXCEPT !.err = offset.err]
       ELSE IF k.err # "none" THEN [none EXCEPT !.err = k.err]
       ELSE IF variant_init_err(v.value, v.metadata) # "none"
            THEN [none EXCEPT !.err = variant_init_err(v.value, v.metadata)]
       ELSE [err |-> "none", found |-> TRUE, key |-> k.val, pos |-> h.data_start + offset.val]

\* the other scalar getters of variant_util.py: [err, val]; a float, a
\* double and a UUID are the bytes that struct.unpack / uuid.UUID decode
get_boolean(value, pos) ==
    IF ~check_index(pos, Len(value)) THEN [err |-> "malformed", val |-> FALSE]
    ELSE IF basic_type_of(value, pos) # PRIMITIVE
              \/ get_type_info(value, pos) \notin {T_TRUE, T_FALSE}
         THEN [err |-> "unexpected_type", val |-> FALSE]
    ELSE [err |-> "none", val |-> get_type_info(value, pos) = T_TRUE]

\* value[pos + 1 : pos + 1 + n]: a slice past the end is cut short
get_fixed(value, pos, type_val, n) ==
    IF ~check_index(pos, Len(value)) THEN [err |-> "malformed", val |-> <<>>]
    ELSE IF basic_type_of(value, pos) # PRIMITIVE \/ get_type_info(value, pos) # type_val
         THEN [err |-> "unexpected_type", val |-> <<>>]
    ELSE IF pos + 1 + n > Len(value) THEN [err |-> "struct_error", val |-> <<>>]
    ELSE [err |-> "none", val |-> Slice(value, pos + 1, n)]

get_double(value, pos) == get_fixed(value, pos, DOUBLE, 8)
get_float(value, pos) == get_fixed(value, pos, FLOAT, 4)

get_uuid(value, pos) ==
    IF ~check_index(pos, Len(value)) THEN [err |-> "malformed", val |-> <<>>]
    ELSE IF basic_type_of(value, pos) # PRIMITIVE \/ get_type_info(value, pos) # UUID
         THEN [err |-> "unexpected_type", val |-> <<>>]
    ELSE IF ~check_index(pos + 1 + 15, Len(value)) THEN [err |-> "malformed", val |-> <<>>]
    ELSE [err |-> "none", val |-> Slice(value, pos + 1, 16)]

\* the length-prefixed bytes at pos: value[start : start + length]
get_prefixed(value, pos, length) ==
    IF length.err # "none" THEN [err |-> length.err, val |-> <<>>]
    ELSE IF ~check_index(pos + 1 + U32_SIZE + length.val - 1, Len(value))
         THEN [err |-> "malformed", val |-> <<>>]
    ELSE [err |-> "none", val |-> Slice(value, pos + 1 + U32_SIZE, length.val)]

get_binary(value, pos) ==
    IF ~check_index(pos, Len(value)) THEN [err |-> "malformed", val |-> <<>>]
    ELSE IF basic_type_of(value, pos) # PRIMITIVE \/ get_type_info(value, pos) # BINARY
         THEN [err |-> "unexpected_type", val |-> <<>>]
    ELSE get_prefixed(value, pos, read_unsigned(value, pos + 1, U32_SIZE))

\* bytes.decode('utf-8') of a getter's bytes
decoded(bytes) ==
    IF bytes.err # "none" THEN bytes
    ELSE IF utf8_decode(bytes.val) = <<-1>> THEN [err |-> "unicode_decode_error", val |-> <<>>]
    ELSE [err |-> "none", val |-> utf8_decode(bytes.val)]

get_string(value, pos) ==
    IF ~check_index(pos, Len(value)) THEN [err |-> "malformed", val |-> <<>>]
    ELSE IF basic_type_of(value, pos) = SHORT_STR
         THEN IF ~check_index(pos + 1 + get_type_info(value, pos) - 1, Len(value))
              THEN [err |-> "malformed", val |-> <<>>]
              ELSE decoded([err |-> "none",
                            val |-> Slice(value, pos + 1, get_type_info(value, pos))])
    ELSE IF basic_type_of(value, pos) = PRIMITIVE /\ get_type_info(value, pos) = LONG_STR
         THEN decoded(get_prefixed(value, pos, read_unsigned(value, pos + 1, U32_SIZE)))
    ELSE [err |-> "unexpected_type", val |-> <<>>]

\* get_element_at_index: [err, found, pos]
get_element_at_index(v, index) ==
    LET hr == handle_array(v.value, v.pos)
        h == hr.h
        offset == read_unsigned(v.value, h.offset_start + h.offset_size * index, h.offset_size)
    IN IF hr.err # "none" THEN Raised(hr.err)
       ELSE IF index < 0 \/ index >= h.size THEN NotFound
       ELSE IF offset.err # "none" THEN Raised(offset.err)
       ELSE IF variant_init_err(v.value, v.metadata) # "none"
            THEN Raised(variant_init_err(v.value, v.metadata))
       ELSE [err |-> "none", found |-> TRUE, pos |-> h.data_start + offset.val]

\* get_dictionary_id_at_index: [err, val]
get_dictionary_id_at_index(v, index) ==
    LET hr == handle_object(v.value, v.pos) IN
    IF hr.err # "none" THEN [err |-> hr.err, val |-> 0]
    ELSE IF index < 0 \/ index >= hr.h.size THEN [err |-> "malformed", val |-> 0]
    ELSE read_unsigned(v.value, hr.h.id_start + hr.h.id_size * index, hr.h.id_size)

\* object_size / array_size: [err, val]
object_size(v) ==
    LET hr == handle_object(v.value, v.pos) IN [err |-> hr.err, val |-> hr.h.size]
array_size(v) ==
    LET hr == handle_array(v.value, v.pos) IN [err |-> hr.err, val |-> hr.h.size]

\* get_type: [err, val], val the name of the Type
get_type(value, pos) ==
    IF ~check_index(pos, Len(value)) THEN [err |-> "malformed", val |-> "NONE"]
    ELSE LET basic_type == basic_type_of(value, pos)
             type_info == get_type_info(value, pos)
             type(t) == [err |-> "none", val |-> t]
         IN IF basic_type = SHORT_STR THEN type("STRING")
            ELSE IF basic_type = OBJECT THEN type("OBJECT")
            ELSE IF basic_type = ARRAY THEN type("ARRAY")
            ELSE IF type_info = NULL THEN type("NULL")
            ELSE IF type_info \in {T_TRUE, T_FALSE} THEN type("BOOLEAN")
            ELSE IF type_info \in {INT1, INT2, INT4, INT8} THEN type("LONG")
            ELSE IF type_info = DOUBLE THEN type("DOUBLE")
            ELSE IF type_info \in {DECIMAL4, DECIMAL8, DECIMAL16} THEN type("DECIMAL")
            ELSE IF type_info = DATE THEN type("DATE")
            ELSE IF type_info = TIMESTAMP THEN type("TIMESTAMP")
            ELSE IF type_info = TIMESTAMP_NTZ THEN type("TIMESTAMP_NTZ")
            ELSE IF type_info = FLOAT THEN type("FLOAT")
            ELSE IF type_info = BINARY THEN type("BINARY")
            ELSE IF type_info = LONG_STR THEN type("STRING")
            ELSE IF type_info = UUID THEN type("UUID")
            ELSE [err |-> "unknown_primitive", val |-> "NONE"]

\* Variant.get_value: [err, val]
get_value(v) ==
    IF v.pos = 0 THEN [err |-> "none", val |-> v.value]
    ELSE LET size == value_size(v.value, v.pos) IN
         IF size.err # "none" THEN [err |-> size.err, val |-> <<>>]
         ELSE IF ~check_index(v.pos + size.val - 1, Len(v.value))
              THEN [err |-> "malformed", val |-> <<>>]
         ELSE [err |-> "none", val |-> Slice(v.value, v.pos, size.val)]

(***************************************************************************)
(* decimal.Decimal: a record [sign, digits, exp] as returned by as_tuple() *)
(* (digits most significant first), with the arithmetic of the default     *)
(* context: precision 28, ROUND_HALF_EVEN.                                 *)
(***************************************************************************)
DECIMAL_CONTEXT_PREC == 28

Dec(sign, digits, exp) == [sign |-> sign, digits |-> digits, exp |-> exp]
Rep(d, n) == [i \in 1..n |-> d]
Min(a, b) == IF a <= b THEN a ELSE b
AllZeroDigits(digs) == \A i \in 1..Len(digs) : digs[i] = 0

\* int(''.join(map(str, digits)))
RECURSIVE DigitsVal(_)
DigitsVal(digs) ==
    IF digs = <<>> THEN PyZero
    ELSE MulSmall(DigitsVal(SubSeq(digs, 1, Len(digs) - 1)), 10, digs[Len(digs)])

\* the decimal digits of a magnitude, most significant first, taken four
\* at a time from the low end
FourDigits(n) == <<n \div 1000, (n \div 100) % 10, (n \div 10) % 10, n % 10>>
LeadingDigits(n) ==
    IF n < 10 THEN <<n>>
    ELSE IF n < 100 THEN SubSeq(FourDigits(n), 3, 4)
    ELSE IF n < 1000 THEN SubSeq(FourDigits(n), 2, 4)
    ELSE FourDigits(n)

RECURSIVE MagDigits(_)
MagDigits(v) ==
    IF IsZero(v) THEN <<>>
    ELSE LET dr == DivRem(v, 10000)
         IN IF IsZero(dr.q) THEN LeadingDigits(dr.r) ELSE MagDigits(dr.q) \o FourDigits(dr.r)

\* decimal.Decimal(int_val): exact, exponent 0
decimal_from_int(int_val) ==
    Dec(IF IsNeg(int_val) THEN 1 ELSE 0,
        IF IsZero(int_val) THEN <<0>> ELSE MagDigits(Abs(int_val)),
        0)

RECURSIVE IncDigits(_)
IncDigits(digs) ==
    IF digs = <<>> THEN <<1>>
    ELSE IF digs[Len(digs)] = 9
         THEN Append(IncDigits(SubSeq(digs, 1, Len(digs) - 1)), 0)
    ELSE [digs EXCEPT ![Len(digs)] = @ + 1]

\* Decimal._fix: round the coefficient to the context precision
decimal_fix(d) ==
    IF Len(d.digits) <= DECIMAL_CONTEXT_PREC THEN d
    ELSE LET prec == DECIMAL_CONTEXT_PREC
             head == SubSeq(d.digits, 1, prec)
             tail == SubSeq(d.digits, prec + 1, Len(d.digits))
             rest_zero == \A i \in 2..Len(tail) : tail[i] = 0
             exact_half == tail[1] = 5 /\ rest_zero
             up == IF exact_half THEN head[prec] % 2 = 1 ELSE tail[1] >= 5
             inc == IF up THEN IncDigits(head) ELSE head
         IN IF Len(inc) > prec
            THEN Dec(d.sign, SubSeq(inc, 1, prec), d.exp + Len(tail) + 1)
            ELSE Dec(d.sign, inc, d.exp + Len(tail))

RECURSIVE StripZerosUpTo(_, _, _)
StripZerosUpTo(digs, exp, ideal_exp) ==
    IF exp < ideal_exp /\ Len(digs) > 1 /\ digs[Len(digs)] = 0
    THEN StripZerosUpTo(SubSeq(digs, 1, Len(digs) - 1), exp + 1, ideal_exp)
    ELSE [digits |-> digs, exp |-> exp]

\* decimal.Decimal(int_val) / decimal.Decimal(10) ** scale  (Decimal.__truediv__;
\* Decimal(10) ** scale has coefficient 10^q and exponent scale - q, q = min(scale, 27))
decimal_div_pow10(int_val, scale) ==
    LET self == decimal_from_int(int_val)
        q == Min(scale, DECIMAL_CONTEXT_PREC - 1)
        other_exp == scale - q
        ideal_exp == 0 - other_exp
        L == Len(self.digits)
        work == DECIMAL_CONTEXT_PREC + 2      \* digits of coeff: shift - q + L
        exp == L - work - scale
    IN IF IsZero(int_val) THEN Dec(self.sign, <<0>>, ideal_exp)
       ELSE IF L <= work
       THEN \* exact: get as close to the ideal exponent as possible
            LET st == StripZerosUpTo(self.digits \o Rep(0, work - L), exp, ideal_exp)
            IN decimal_fix(Dec(self.sign, st.digits, st.exp))
       ELSE LET coeff == SubSeq(self.digits, 1, work)
                remainder == ~AllZeroDigits(SubSeq(self.digits, work + 1, L))
            IN IF remainder
               THEN decimal_fix(Dec(self.sign,
                        IF coeff[work] % 5 = 0 THEN [coeff EXCEPT ![work] = @ + 1] ELSE coeff,
                        exp))
               ELSE LET st == StripZerosUpTo(coeff, exp, ideal_exp)
                    IN decimal_fix(Dec(self.sign, st.digits, st.exp))

\* Decimal.normalize(): round, then strip every trailing zero
decimal_normalize(d) ==
    LET dup == decimal_fix(d) IN
    IF AllZeroDigits(dup.digits) THEN Dec(dup.sign, <<0>>, 0)
    ELSE LET st == StripZerosUpTo(dup.digits, dup.exp, dup.exp + Len(dup.digits))
         IN Dec(dup.sign, st.digits, st.exp)

\* numeric equality of two decimals (Decimal.__eq__): equal after all
\* trailing zeros are stripped, any two zeros being equal
StripAll(d) ==
    IF AllZeroDigits(d.digits) THEN Dec(0, <<0>>, 0)
    ELSE LET st == StripZerosUpTo(d.digits, d.exp, d.exp + Len(d.digits))
         IN Dec(d.sign, st.digits, st.exp)
NumEq(d1, d2) == StripAll(d1) = StripAll(d2)

\* Decimal.scaleb(other): the exponent moves by other, the coefficient stays,
\* and the result is rounded to the context
decimal_scaleb(d, other) == decimal_fix(Dec(d.sign, d.digits, d.exp + other))

\* int(decimal): truncation toward zero
decimal_to_int(d) ==
    LET mag == IF d.exp >= 0 THEN DigitsVal(d.digits \o Rep(0, d.exp))
               ELSE DigitsVal(SubSeq(d.digits, 1, Len(d.digits) + d.exp))
    IN IF d.sign = 1 THEN Negate(mag) ELSE mag

\* str(n) of a natural number, as code points
RECURSIVE NatStr(_)
NatStr(n) == IF n < 10 THEN <<48 + n>> ELSE Append(NatStr(n \div 10), 48 + (n % 10))

DigitChars(digs) == [i \in 1..Len(digs) |-> 48 + digs[i]]

\* Decimal.__str__ once the position of the decimal point is known
decimal_str_at(d, leftdigits, dotplace) ==
    (IF d.sign = 1 THEN <<45>> ELSE <<>>)
    \o (IF dotplace <= 0 THEN <<48, 46>> \o Rep(48, 0 - dotplace) \o DigitChars(d.digits)
        ELSE IF dotplace >= Len(d.digits)
             THEN DigitChars(d.digits) \o Rep(48, dotplace - Len(d.digits))
        ELSE DigitChars(SubSeq(d.digits, 1, dotplace)) \o <<46>>
             \o DigitChars(SubSeq(d.digits, dotplace + 1, Len(d.digits))))
    \o (IF leftdigits = dotplace THEN <<>>
        ELSE <<69, IF leftdigits - dotplace < 0 THEN 45 ELSE 43>>
             \o NatStr(IF leftdigits - dotplace < 0 THEN dotplace - leftdigits
                       ELSE leftdigits - dotplace))

\* str(decimal): scientific notation when the exponent is positive or the
\* number is below 1e-6
decimal_str(d) ==
    decimal_str_at(d, d.exp + Len(d.digits),
                   IF d.exp <= 0 /\ d.exp + Len(d.digits) > -6 THEN d.exp + Len(d.digits) ELSE 1)

\* str(int)
int_str(int_val) ==
    (IF IsNeg(int_val) THEN <<45>> ELSE <<>>)
    \o (IF IsZero(int_val) THEN <<48>> ELSE DigitChars(MagDigits(Abs(int_val))))

check_decimal(d, max_precision) ==
    ~(d.exp < 0 - max_precision \/ Len(d.digits) > max_precision)

NoDec == Dec(0, <<0>>, 0)

decimal_checked(d, max_precision) ==
    IF check_decimal(d, max_precision) THEN [err |-> "none", val |-> d]
    ELSE [err |-> "malformed", val |-> NoDec]

get_decimal_with_original_scale(value, pos) ==
    IF ~check_index(pos, Len(value)) THEN [err |-> "malformed", val |-> NoDec]
    ELSE IF basic_type_of(value, pos) # PRIMITIVE
         THEN [err |-> "unexpected_type", val |-> NoDec]
    ELSE IF pos + 1 >= Len(value) THEN [err |-> "index_error", val |-> NoDec]
    ELSE LET type_info == get_type_info(value, pos)
             scale == value[pos + 2]
         IN IF type_info = DECIMAL4
            THEN LET r == read_long(value, pos + 2, 4) IN
                 IF r.err # "none" THEN [err |-> r.err, val |-> NoDec]
                 ELSE decimal_checked(decimal_div_pow10(r.val, scale), MAX_DECIMAL4_PRECISION)
            ELSE IF type_info = DECIMAL8
            THEN LET r == read_long(value, pos + 2, 8) IN
                 IF r.err # "none" THEN [err |-> r.err, val |-> NoDec]
                 ELSE decimal_checked(decimal_div_pow10(r.val, scale), MAX_DECIMAL8_PRECISION)
            ELSE IF type_info = DECIMAL16
            THEN IF ~check_index(pos + 17, Len(value)) THEN [err |-> "malformed", val |-> NoDec]
                 ELSE \* int.from_bytes(reversed window, byteorder='big', signed=True)
                      decimal_checked(
                          decimal_div_pow10(SignExtend(Slice(value, pos + 2, 16)), scale),
                          MAX_DECIMAL16_PRECISION)
            ELSE [err |-> "unexpected_type", val |-> NoDec]

normalized(r) ==
    IF r.err # "none" THEN r ELSE [err |-> "none", val |-> decimal_normalize(r.val)]

get_decimal(value, pos) == normalized(get_decimal_with_original_scale(value, pos))

(***************************************************************************)
(* to_json (variant.py): the JSON text as a sequence of code points.  The  *)
(* text of a DOUBLE, FLOAT, DATE, TIMESTAMP, TIMESTAMP_NTZ, BINARY or UUID *)
(* is a function of the value's bytes alone; it is written here as a       *)
(* negative tag followed by those bytes.                                   *)
(***************************************************************************)
HexDigit(n) == IF n < 10 THEN 48 + n ELSE 87 + n

\* json.dumps of one character (ensure_ascii)
json_char(c) ==
    IF c = 34 \/ c = 92 THEN <<92, c>>
    ELSE IF c = 10 THEN <<92, 110>>
    ELSE IF c = 13 THEN <<92, 114>>
    ELSE IF c = 9 THEN <<92, 116>>
    ELSE IF c = 12 THEN <<92, 102>>
    ELSE IF c = 8 THEN <<92, 98>>
    ELSE IF c >= 32 /\ c < 127 THEN <<c>>
    ELSE <<92, 117, HexDigit(c \div 4096), HexDigit((c \div 256) % 16),
           HexDigit((c \div 16) % 16), HexDigit(c % 16)>>

RECURSIVE json_chars(_)
json_chars(str) == IF str = <<>> THEN <<>> ELSE json_char(str[1]) \o json_chars(Tail(str))

\* json.dumps(str)
json_dumps(str) == <<34>> \o json_chars(str) \o <<34>>

JsonErr(e) == [err |-> e, val |-> <<>>]
JsonText(r, text) == IF r.err # "none" THEN JsonErr(r.err) ELSE [err |-> "none", val |-> text]

scalar_to_json(value, pos, variant_type) ==
    CASE variant_type = "NULL" -> JsonText([err |-> "none"], <<110, 117, 108, 108>>)
      [] variant_type = "BOOLEAN" ->
            LET r == get_boolean(value, pos) IN
            JsonText(r, IF r.val THEN <<116, 114, 117, 101>> ELSE <<102, 97, 108, 115, 101>>)
      [] variant_type = "LONG" ->
            LET r == get_long(value, pos) IN JsonText(r, int_str(r.val))
      [] variant_type = "STRING" ->
            LET r == get_string(value, pos) IN JsonText(r, json_dumps(r.val))
      [] variant_type = "DECIMAL" ->
            LET r == get_decimal(value, pos) IN JsonText(r, decimal_str(r.val))
      [] variant_type = "DOUBLE" ->
            LET r == get_double(value, pos) IN JsonText(r, <<-1>> \o r.val)
      [] variant_type = "FLOAT" ->
            LET r == get_float(value, pos) IN JsonText(r, <<-2>> \o r.val)
      [] variant_type = "DATE" ->
            LET r == get_long(value, pos) IN JsonText(r, <<-3>> \o r.val)
      [] variant_type = "TIMESTAMP" ->
            LET r == get_long(value, pos) IN JsonText(r, <<-4>> \o r.val)
      [] variant_type = "TIMESTAMP_NTZ" ->
            LET r == get_long(value, pos) IN JsonText(r, <<-5>> \o r.val)
      [] variant_type = "BINARY" ->
            LET r == get_binary(value, pos) IN JsonText(r, <<-6>> \o r.val)
      [] variant_type = "UUID" ->
            LET r == get_uuid(value, pos) IN JsonText(r, <<-7>> \o r.val)

RECURSIVE to_json_impl(_, _, _)
RECURSIVE handle_object_json(_, _, _, _, _)
RECURSIVE handle_array_json(_, _, _, _, _)

\* one field of _handle_object_json: acc is the text so far
object_field_json(value, metadata, h, i, acc, id_val, offset, key) ==
    IF id_val.err # "none" THEN JsonErr(id_val.err)
    ELSE IF offset.err # "none" THEN JsonErr(offset.err)
    ELSE IF key.err # "none" THEN JsonErr(key.err)
    ELSE LET child == to_json_impl(value, metadata, h.data_start + offset.val) IN
         IF child.err # "none" THEN child
         ELSE [err |-> "none",
               val |-> acc.val \o (IF i # 0 THEN <<44>> ELSE <<>>) \o json_dumps(key.val)
                       \o <<58>> \o child.val]

handle_object_json(value, metadata, h, i, acc) ==
    IF acc.err # "none" THEN acc
    ELSE IF i >= h.size THEN [err |-> "none", val |-> Append(acc.val, 125)]
    ELSE handle_object_json(value, metadata, h, i + 1,
             object_field_json(value, metadata, h, i, acc,
                 read_unsigned(value, h.id_start + h.id_size * i, h.id_size),
                 read_unsigned(value, h.offset_start + h.offset_size * i, h.offset_size),
                 get_metadata_key(metadata,
                     read_unsigned(value, h.id_start + h.id_size * i, h.id_size).val)))

array_element_json(value, metadata, h, i, acc, offset) ==
    IF offset.err # "none" THEN JsonErr(offset.err)
    ELSE LET child == to_json_impl(value, metadata, h.data_start + offset.val) IN
         IF child.err # "none" THEN child
         ELSE [err |-> "none",
               val |-> acc.val \o (IF i # 0 THEN <<44>> ELSE <<>>) \o child.val]

handle_array_json(value, metadata, h, i, acc) ==
    IF acc.err # "none" THEN acc
    ELSE IF i >= h.size THEN [err |-> "none", val |-> Append(acc.val, 93)]
    ELSE handle_array_json(value, metadata, h, i + 1,
             array_element_json(value, metadata, h, i, acc,
                 read_unsigned(value, h.offset_start + h.offset_size * i, h.offset_size)))

container_to_json(value, metadata, is_object, hr) ==
    IF hr.err # "none" THEN JsonErr(hr.err)
    ELSE IF is_object
         THEN handle_object_json(value, metadata, hr.h, 0, [err |-> "none", val |-> <<123>>])
    ELSE handle_array_json(value, metadata, hr.h, 0, [err |-> "none", val |-> <<91>>])

to_json_typed(value, metadata, pos, variant_type) ==
    IF variant_type.err # "none" THEN JsonErr(variant_type.err)
    ELSE IF variant_type.val = "OBJECT"
         THEN container_to_json(value, metadata, TRUE, handle_object(value, pos))
    ELSE IF variant_type.val = "ARRAY"
         THEN container_to_json(value, metadata, FALSE, handle_array(value, pos))
    ELSE scalar_to_json(value, pos, variant_type.val)

to_json_impl(value, metadata, pos) ==
    to_json_typed(value, metadata, pos, get_type(value, pos))

to_json(v) == to_json_impl(v.value, v.metadata, v.pos)

(***************************************************************************)
(* The builder (variant_builder.py).  A builder is a record; an operation  *)
(* that raises leaves the builder as it was when the exception was thrown  *)
(* and records the exception in err.                                       *)
(***************************************************************************)
NewBuilder(allow_duplicate_keys) ==
    [allow_duplicate_keys |-> allow_duplicate_keys,
     write_buffer |-> [i \in 1..INITIAL_CAPACITY |-> 0],
     write_pos |-> 0,
     dictionary_keys |-> <<>>,
     err |-> "none"]

RECURSIVE NextPow2(_, _)
NextPow2(new_capacity, required) ==
    IF new_capacity < required THEN NextPow2(new_capacity * 2, required)
    ELSE new_capacity

\* a buffer that grows to the required size and no further
grown_capacity_m(capacity, write_pos, additional) ==
    LET required == write_pos + additional IN
    IF required > capacity
    THEN IF NextPow2(1, required) > SIZE_LIMIT THEN 0 ELSE required
    ELSE capacity
\* the capacity after _check_capacity(additional), 0 when it raises
grown_capacity(capacity, write_pos, additional) ==
    LET required == write_pos + additional IN
    IF required > capacity
    THEN LET new_capacity == NextPow2(1, required) IN
         IF new_capacity > SIZE_LIMIT THEN 0 ELSE new_capacity
    ELSE capacity

\* new_buffer = bytearray(new_capacity) with the bytes below write_pos
with_capacity(b, cap) ==
    IF cap = 0 THEN [b EXCEPT !.err = "size_limit"]
    ELSE IF cap = Len(b.write_buffer) THEN b
    ELSE [b EXCEPT !.write_buffer =
            bytearray([i \in 1..cap |->
                          IF i <= b.write_pos THEN b.write_buffer[i] ELSE 0])]

check_capacity(b, additional) ==
    with_capacity(b, grown_capacity(Len(b.write_buffer), b.write_pos, additional))

\* write one header byte and a little-endian payload at write_pos
put_primitive(b, type_val, payload) ==
    LET n == Len(payload) IN
    [b EXCEPT !.write_buffer =
                 bytearray([i \in 1..Len(b.write_buffer) |->
                     IF i = b.write_pos + 1 THEN primitive_header(type_val)
                     ELSE IF b.write_pos + 1 < i /\ i <= b.write_pos + 1 + n
                          THEN payload[i - b.write_pos - 1]
                     ELSE b.write_buffer[i]]),
              !.write_pos = b.write_pos + 1 + n]

fits_int1(l) == l = AndLowBytes(l, 1) /\ Leq(FromInt(-128), l) /\ Less(l, FromInt(128))
fits_int2(l) == l = AndLowBytes(l, 2) /\ Leq(FromInt(-32768), l) /\ Less(l, FromInt(32768))
fits_int4(l) == l = AndLowBytes(l, 4) /\ Leq(Negate(Pow2(31)), l) /\ Less(l, Pow2(31))

append_long(b0, l) ==
    LET b == check_capacity(b0, 1 + 8) IN
    IF b.err # "none" THEN b
    ELSE IF fits_int1(l) THEN put_primitive(b, INT1, Slice(l, 0, 1))
    ELSE IF fits_int2(l) THEN put_primitive(b, INT2, Slice(l, 0, 2))
    ELSE IF fits_int4(l) THEN put_primitive(b, INT4, Slice(l, 0, 4))
    ELSE put_primitive(b, INT8, Slice(l, 0, 8))

append_double(b0, bits) ==
    LET b == check_capacity(b0, 1 + 8) IN
    IF b.err # "none" THEN b ELSE put_primitive(b, DOUBLE, bits)

decimal_scale(d) == IF d.exp < 0 THEN 0 - d.exp ELSE 0
decimal_unscaled(d) ==
    IF d.sign = 1 THEN Negate(DigitsVal(d.digits)) ELSE DigitsVal(d.digits)
\* d.adjusted() + 1
decimal_adjusted1(d) == Len(d.digits) + d.exp

fits_decimal4(d) ==
    decimal_scale(d) <= MAX_DECIMAL4_PRECISION /\ decimal_adjusted1(d) <= MAX_DECIMAL4_PRECISION
fits_decimal8(d) ==
    decimal_scale(d) <= MAX_DECIMAL8_PRECISION /\ decimal_adjusted1(d) <= MAX_DECIMAL8_PRECISION
fits_decimal16(d) ==
    decimal_scale(d) <= MAX_DECIMAL16_PRECISION /\ decimal_adjusted1(d) <= MAX_DECIMAL16_PRECISION

append_decimal(b0, d) ==
    LET b == check_capacity(b0, 2 + 16)
        scale == decimal_scale(d)
        unscaled == decimal_unscaled(d)
    IN IF b.err # "none" THEN b
       ELSE IF fits_decimal4(d)
       THEN put_primitive(b, DECIMAL4, <<scale>> \o Slice(unscaled, 0, 4))
       ELSE IF fits_decimal8(d)
       THEN put_primitive(b, DECIMAL8, <<scale>> \o Slice(unscaled, 0, 8))
       ELSE IF ~fits_decimal16(d) THEN [b EXCEPT !.err = "assertion"]
       ELSE IF unscaled # SignExtend(Slice(unscaled, 0, 16))
            THEN \* unscaled.to_bytes(16, signed=True) raises OverflowError after
                 \* the header and the scale byte were written
                 [put_primitive(b, DECIMAL16, <<scale>>) EXCEPT !.err = "overflow"]
       ELSE put_primitive(b, DECIMAL16, <<scale>> \o Slice(unscaled, 0, 16))

\* build_json on a float f: f.dec is decimal.Decimal(str(f)) and f.bits is
\* struct.pack('<d', f).  Any exception of the decimal attempt is swallowed.
build_json_float(b, f) ==
    IF f.dec.exp >= 0 - MAX_DECIMAL16_PRECISION
         /\ Len(f.dec.digits) <= MAX_DECIMAL16_PRECISION
    THEN LET tried == append_decimal(b, f.dec) IN
         IF tried.err = "none" THEN tried
         ELSE append_double([tried EXCEPT !.err = "none"], f.bits)
    ELSE append_double(b, f.bits)

\* write raw bytes at write_pos and advance
put_bytes(b, bytes) ==
    [b EXCEPT !.write_buffer =
                 bytearray([i \in 1..Len(b.write_buffer) |->
                     IF b.write_pos < i /\ i <= b.write_pos + Len(bytes)
                     THEN bytes[i - b.write_pos] ELSE b.write_buffer[i]]),
              !.write_pos = b.write_pos + Len(bytes)]

append_string(b0, str) ==
    LET text == utf8_encode(str)
        long_str == Len(text) > MAX_SHORT_STR_SIZE
        b == check_capacity(b0, (IF long_str THEN 1 + U32_SIZE ELSE 1) + Len(text))
    IN IF b.err # "none" THEN b
       ELSE IF long_str
            THEN put_bytes(b, <<primitive_header(LONG_STR)>>
                                \o NatBytes(Len(text), U32_SIZE) \o text)
       ELSE put_bytes(b, <<short_str_header(Len(text))>> \o text)

\* a null that takes two bytes
append_null_m(b0) ==
    LET b == check_capacity(b0, 2) IN
    IF b.err # "none" THEN b ELSE put_bytes(b, <<primitive_header(NULL), 0>>)
append_null(b0) ==
    LET b == check_capacity(b0, 1) IN
    IF b.err # "none" THEN b ELSE put_bytes(b, <<primitive_header(NULL)>>)

append_boolean(b0, bool) ==
    LET b == check_capacity(b0, 1) IN
    IF b.err # "none" THEN b
    ELSE put_bytes(b, <<primitive_header(IF bool THEN T_TRUE ELSE T_FALSE)>>)

\* append_date / append_timestamp / append_timestamp_ntz: a header byte and
\* the low n bytes of the integer
append_integer(b0, type_val, l, n) ==
    LET b == check_capacity(b0, 1 + n) IN
    IF b.err # "none" THEN b ELSE put_primitive(b, type_val, Slice(l, 0, n))

append_date(b, days_since_epoch) == append_integer(b, DATE, days_since_epoch, 4)
append_timestamp(b, micros_since_epoch) == append_integer(b, TIMESTAMP, micros_since_epoch, 8)
append_timestamp_ntz(b, micros_since_epoch) ==
    append_integer(b, TIMESTAMP_NTZ, micros_since_epoch, 8)

\* append_float, append_uuid: a header byte and the packed bytes
append_packed(b0, type_val, packed) ==
    LET b == check_capacity(b0, 1 + Len(packed)) IN
    IF b.err # "none" THEN b ELSE put_primitive(b, type_val, packed)

append_float(b, packed) == append_packed(b, FLOAT, packed)
append_uuid(b, uuid_bytes) == append_packed(b, UUID, uuid_bytes)

append_binary(b0, binary) ==
    LET b == check_capacity(b0, 1 + U32_SIZE + Len(binary)) IN
    IF b.err # "none" THEN b
    ELSE put_primitive(b, BINARY, NatBytes(Len(binary), U32_SIZE) \o binary)

\* the id of key in the dictionary (dictionary[key]), -1 when it is absent
dictionary_get(b, key) ==
    IF \E i \in 1..Len(b.dictionary_keys) : b.dictionary_keys[i] = key
    THEN (CHOOSE i \in 1..Len(b.dictionary_keys) : b.dictionary_keys[i] = key) - 1
    ELSE -1

\* add_key: [b |-> the builder afterwards, id |-> the returned id]
add_key_append(b, key) ==
    [b |-> [b EXCEPT !.dictionary_keys = Append(@, key)], id |-> Len(b.dictionary_keys)]

add_key(b, key) ==
    IF dictionary_get(b, key) >= 0 THEN [b |-> b, id |-> dictionary_get(b, key)]
    ELSE [b |-> [b EXCEPT !.dictionary_keys = Append(@, key)],
          id |-> Len(b.dictionary_keys)]

FieldEntry(key, id, offset) == [key |-> key, id |-> id, offset |-> offset]

KeyLt(f, g) == StrLess(f.key, g.key)
OffsetLt(f, g) == f.offset < g.offset

\* a finish_writing_object that leaves the fields in the order they were added
sort_by_key_unsorted(fields) == fields
\* fields.sort(key=lambda f: f.key): list.sort is stable
sort_by_key(fields) ==
    LET n == Len(fields)
        Rank(i) == Cardinality({j \in 1..n : \/ KeyLt(fields[j], fields[i])
                                             \/ (~KeyLt(fields[i], fields[j]) /\ j < i)}) + 1
    IN SubSeq([k \in 1..n |-> fields[CHOOSE i \in 1..n : Rank(i) = k]], 1, n)

\* fields.sort(key=lambda f: f.offset)
sort_by_offset(fields) ==
    LET n == Len(fields)
        Rank(i) == Cardinality({j \in 1..n : \/ OffsetLt(fields[j], fields[i])
                                             \/ (~OffsetLt(fields[i], fields[j]) /\ j < i)}) + 1
    IN SubSeq([k \in 1..n |-> fields[CHOOSE i \in 1..n : Rank(i) = k]], 1, n)

max_id_of(fields) ==
    IF fields = <<>> THEN 0
    ELSE CHOOSE m \in {fields[i].id : i \in 1..Len(fields)} :
            \A i \in 1..Len(fields) : fields[i].id <= m

\* a coalescing step that keeps the first entry of a run (first writer wins)
max_offset_field_first(fields, i, j) == fields[i]

\* for the run of equal keys that starts at index i of the key-sorted list:
\* the entry with the greatest offset (the first one among equal offsets)
max_offset_field(fields, i, j) ==
    LET run == i..(j - 1)
        best == CHOOSE k \in run :
                   /\ \A m \in run : fields[m].offset <= fields[k].offset
                   /\ \A m \in run : m < k => fields[m].offset < fields[k].offset
    IN fields[best]

RECURSIVE distinct_fields_from(_, _)
distinct_fields_from(fields, i) ==
    IF i > Len(fields) THEN <<>>
    ELSE LET j == CHOOSE e \in (i + 1)..(Len(fields) + 1) :
                     /\ \A k \in i..(e - 1) : fields[k].key = fields[i].key
                     /\ (e <= Len(fields) => fields[e].key # fields[i].key)
         IN <<max_offset_field(fields, i, j)>> \o distinct_fields_from(fields, j)

\* the repacking loop: moves the payload of fields[i], i+1, ... (sorted by
\* offset) down to start + current_offset
RECURSIVE repack(_, _, _, _, _)
repack(buf, start, fields, i, current_offset) ==
    IF i > Len(fields)
    THEN [err |-> "none", buf |-> buf, fields |-> fields, current_offset |-> current_offset]
    ELSE LET old_offset == fields[i].offset
             field_size == value_size(buf, start + old_offset)
             moved == bytearray([p \in 1..Len(buf) |->
                          IF start + current_offset < p
                               /\ p <= start + current_offset + field_size.val
                          THEN buf[p - current_offset + old_offset]
                          ELSE buf[p]])
         IN IF field_size.err # "none"
            THEN [err |-> field_size.err, buf |-> buf, fields |-> fields,
                  current_offset |-> current_offset]
            ELSE repack(IF current_offset # old_offset THEN moved ELSE buf, start,
                        [fields EXCEPT ![i].offset = current_offset], i + 1,
                        current_offset + field_size.val)

\* a duplicate check that compares the first two sorted entries only
has_duplicate_key_first_pair(fields) ==
    Len(fields) >= 2 /\ fields[2].key = fields[1].key

has_duplicate_key(fields) ==
    \E i \in 2..Len(fields) : fields[i].key = fields[i - 1].key

\* _get_integer_size: 0 stands for the failed assertion
get_integer_size(value) ==
    IF ~(0 <= value /\ value <= U24_MAX) THEN 0
    ELSE IF value <= U8_MAX THEN 1
    ELSE IF value <= U16_MAX THEN 2
    ELSE U24_SIZE

\* a header without room for the last offset
container_header_size_m(size, is_object, id_size, offset_size) ==
    1 + (IF size > U8_MAX THEN U32_SIZE ELSE 1)
      + (IF is_object THEN size * id_size ELSE 0) + size * offset_size
\* header byte, size, id list (objects only) and offset list
container_header_size(size, is_object, id_size, offset_size) ==
    1 + (IF size > U8_MAX THEN U32_SIZE ELSE 1)
      + (IF is_object THEN size * id_size ELSE 0) + (size + 1) * offset_size

\* the header of a container: shift the data right, then write the header
\* byte, the size, the ids (objects only) and the offsets
write_container(b0, start, data_size, is_object, max_id, ids, offsets) ==
    LET size == Len(offsets)
        large_size == size > U8_MAX
        size_bytes == IF large_size THEN U32_SIZE ELSE 1
        id_size == IF is_object THEN get_integer_size(max_id) ELSE 1
        offset_size == get_integer_size(data_size)
        id_bytes == IF is_object THEN size * id_size ELSE 0
        header_size == container_header_size(size, is_object, id_size, offset_size)
        b == check_capacity(b0, header_size)
        header == IF is_object THEN object_header(large_size, id_size, offset_size)
                  ELSE array_header(large_size, offset_size)
    IN IF id_size = 0 \/ offset_size = 0 THEN [b0 EXCEPT !.err = "assertion"]
       ELSE IF b.err # "none" THEN b
       ELSE [b EXCEPT
               !.write_pos = b.write_pos + header_size,
               !.write_buffer =
                  bytearray([p \in 1..Len(b.write_buffer) |->
                     LET q == p - 1 - start IN   \* index relative to start
                     IF q < 0 THEN b.write_buffer[p]
                     ELSE IF q = 0 THEN header
                     ELSE IF q < 1 + size_bytes THEN NatBytes(size, size_bytes)[q]
                     ELSE IF q < 1 + size_bytes + id_bytes
                          THEN LET r == q - 1 - size_bytes IN
                               NatBytes(ids[(r \div id_size) + 1], id_size)[(r % id_size) + 1]
                     ELSE IF q < header_size
                          THEN LET r == q - 1 - size_bytes - id_bytes
                                   k == (r \div offset_size) + 1
                               IN NatBytes(IF k <= size THEN offsets[k] ELSE data_size,
                                           offset_size)[(r % offset_size) + 1]
                     ELSE IF q < header_size + data_size THEN b.write_buffer[p - header_size]
                     ELSE b.write_buffer[p]])]

\* the header of an object over its final fields
write_object(b1, start, max_id, fields) ==
    write_container(b1, start, b1.write_pos - start, TRUE, max_id,
                    [i \in 1..Len(fields) |-> fields[i].id],
                    [i \in 1..Len(fields) |-> fields[i].offset])

\* finish_writing_object once the fields are sorted (sorted) and, where
\* duplicates are allowed and present (lenient), repacked (rp)
finish_repacked(b, start, sorted, lenient, rp) ==
    IF lenient /\ rp.err # "none"
    THEN [b EXCEPT !.write_buffer = rp.buf, !.err = rp.err]
    ELSE IF ~b.allow_duplicate_keys /\ has_duplicate_key(sorted)
         THEN [b EXCEPT !.err = "duplicate_key"]
    ELSE write_object(IF lenient
                      THEN [b EXCEPT !.write_buffer = rp.buf,
                                     !.write_pos = start + rp.current_offset]
                      ELSE b,
                      start, max_id_of(sorted),
                      IF lenient THEN sort_by_key(rp.fields) ELSE sorted)

finish_distinct(b, start, sorted, distinct) ==
    finish_repacked(b, start, sorted, b.allow_duplicate_keys /\ Len(distinct) < Len(sorted),
                    repack(b.write_buffer, start, sort_by_offset(distinct), 1, 0))

finish_sorted(b, start, sorted) ==
    finish_distinct(b, start, sorted, distinct_fields_from(sorted, 1))

finish_writing_object(b, start, fields0) == finish_sorted(b, start, sort_by_key(fields0))

finish_writing_array(b, start, offsets) ==
    write_container(b, start, b.write_pos - start, FALSE, 0, <<>>, offsets)

\* bytearray slice assignment arr[a:b] = bytes (the slice is clipped to arr)
SliceAssign(arr, a, b, bytes) ==
    LET a2 == Min(a, Len(arr))
        b2 == IF Min(b, Len(arr)) < a2 THEN a2 ELSE Min(b, Len(arr))
    IN SubSeq(arr, 1, a2) \o bytes \o SubSeq(arr, b2 + 1, Len(arr))

RECURSIVE SumLen(_)
SumLen(keys) == IF keys = <<>> THEN 0 ELSE Len(keys[1]) + SumLen(Tail(keys))

\* the loop of result() over the keys i, i+1, ... (0-based)
RECURSIVE write_keys(_, _, _, _, _, _, _)
write_keys(metadata, keys, i, current_offset, offset_start, offset_size, string_start) ==
    \* write_long raises IndexError outside the buffer; result() sizes the
    \* buffer so that the offset table always fits
    IF Len(metadata) < offset_start + (Len(keys) + 1) * offset_size THEN metadata
    ELSE IF i >= Len(keys)
    THEN write_long(metadata, offset_start + Len(keys) * offset_size,
                    NatBytes(current_offset, offset_size), offset_size)
    ELSE LET key_bytes == utf8_encode(keys[i + 1])
             m1 == write_long(metadata, offset_start + i * offset_size,
                              NatBytes(current_offset, offset_size), offset_size)
             m2 == SliceAssign(m1, string_start + current_offset,
                               string_start + current_offset + Len(key_bytes), key_bytes)
         IN write_keys(m2, keys, i + 1, current_offset + Len(key_bytes),
                       offset_start, offset_size, string_start)

NoVariant == [err |-> "none", value |-> <<>>, metadata |-> <<>>, pos |-> 0]

\* result(): [err, value, metadata, pos]
result(b) ==
    LET num_keys == Len(b.dictionary_keys)
        \* sum(len(key) ...): the number of code points, not of bytes
        dictionary_string_size == SumLen(b.dictionary_keys)
        max_size == IF num_keys > 0
                    THEN (IF dictionary_string_size > num_keys
                          THEN dictionary_string_size ELSE num_keys)
                    ELSE 0
        offset_size == get_integer_size(max_size)
        offset_start == 1 + offset_size
        string_start == offset_start + (num_keys + 1) * offset_size
        metadata_size == string_start + dictionary_string_size
        header_byte == VERSION + (offset_size - 1) * 64
        m0 == bytearray([i \in 1..metadata_size |->
                 IF i = 1 THEN header_byte
                 ELSE IF i <= 1 + offset_size THEN NatBytes(num_keys, offset_size)[i - 1]
                 ELSE 0])
        metadata == write_keys(m0, b.dictionary_keys, 0, 0, offset_start, offset_size,
                               string_start)
        value == SubSeq(b.write_buffer, 1, b.write_pos)
    IN IF max_size > SIZE_LIMIT THEN [NoVariant EXCEPT !.err = "size_limit"]
       ELSE IF offset_size = 0 THEN [NoVariant EXCEPT !.err = "assertion"]
       ELSE IF metadata_size > SIZE_LIMIT THEN [NoVariant EXCEPT !.err = "size_limit"]
       ELSE IF variant_init_err(value, metadata) # "none"
            THEN [NoVariant EXCEPT !.err = variant_init_err(value, metadata)]
       ELSE [err |-> "none", value |-> value, metadata |-> metadata, pos |-> 0]

(***************************************************************************)
(* build_json on a parsed JSON value: [t |-> "obj", items |-> <<[key, val], *)
(* ...>>] (a dict in iteration order), [t |-> "arr", items |-> <<...>>],    *)
(* [t |-> "str", s], [t |-> "bool", b], [t |-> "float", f], [t |-> "int",   *)
(* l] and [t |-> "null"].                                                   *)
(***************************************************************************)
RECURSIVE build_json(_, _)
RECURSIVE build_json_fields(_, _, _, _, _)
RECURSIVE build_json_items(_, _, _, _, _)

build_json_fields(b, start, items, i, fields) ==
    \* one FieldEntry has been recorded for each item appended so far
    IF b.err # "none" \/ Len(fields) # i - 1 THEN b
    ELSE IF i > Len(items) THEN finish_writing_object(b, start, fields)
    ELSE LET ak == add_key(b, items[i].key)
             entry == FieldEntry(items[i].key, ak.id, b.write_pos - start)
         IN build_json_fields(build_json(ak.b, items[i].val), start, items, i + 1,
                              Append(fields, entry))

build_json_items(b, start, items, i, offsets) ==
    \* one offset has been recorded for each item appended so far
    IF b.err # "none" \/ Len(offsets) # i - 1 THEN b
    ELSE IF i > Len(items) THEN finish_writing_array(b, start, offsets)
    ELSE build_json_items(build_json(b, items[i]), start, items, i + 1,
                          Append(offsets, b.write_pos - start))

build_json(b, json_data) ==
    IF b.err # "none" THEN b
    ELSE IF json_data.t = "obj" THEN build_json_fields(b, b.write_pos, json_data.items, 1, <<>>)
    ELSE IF json_data.t = "arr" THEN build_json_items(b, b.write_pos, json_data.items, 1, <<>>)
    ELSE IF json_data.t = "str" THEN append_string(b, json_data.s)
    ELSE IF json_data.t = "bool" THEN append_boolean(b, json_data.b)
    ELSE IF json_data.t = "float" THEN build_json_float(b, json_data.f)
    ELSE IF json_data.t = "int" THEN append_long(b, json_data.l)
    ELSE append_null(b)


(***************************************************************************)
(* append_variant: a deep copy that maps every key id of the source        *)
(* metadata to the id of the same key in the builder's dictionary.         *)
(***************************************************************************)
\* _shallow_append_variant_impl once value_size has returned (or raised)
shallow_copy(b0, value, pos, size) ==
    IF size.err # "none" THEN [b0 EXCEPT !.err = size.err]
    ELSE IF ~check_index(pos + size.val - 1, Len(value)) THEN [b0 EXCEPT !.err = "malformed"]
    ELSE LET b == check_capacity(b0, size.val) IN
         IF b.err # "none" THEN b ELSE put_bytes(b, Slice(value, pos, size.val))

shallow_append_variant_impl(b, value, pos) ==
    shallow_copy(b, value, pos, value_size(value, pos))

RECURSIVE append_variant_impl(_, _, _, _)
RECURSIVE append_object(_, _, _, _, _, _, _)
RECURSIVE append_array(_, _, _, _, _, _, _)

\* a copy of a field that keeps the id the key has in the source metadata
append_object_entry_old_id(b, value, metadata, h, start, i, fields, id_val, offset, key) ==
    IF id_val.err # "none" THEN [b EXCEPT !.err = id_val.err]
    ELSE IF offset.err # "none" THEN [b EXCEPT !.err = offset.err]
    ELSE IF key.err # "none" THEN [b EXCEPT !.err = key.err]
    ELSE LET ak == add_key(b, key.val) IN
         append_object(append_variant_impl(ak.b, value, metadata, h.data_start + offset.val),
                       value, metadata, h, start, i + 1,
                       Append(fields, FieldEntry(key.val, id_val.val, b.write_pos - start)))

\* one iteration of the loop of _append_object, for the field at index i
append_object_entry(b, value, metadata, h, start, i, fields, id_val, offset, key) ==
    IF id_val.err # "none" THEN [b EXCEPT !.err = id_val.err]
    ELSE IF offset.err # "none" THEN [b EXCEPT !.err = offset.err]
    ELSE IF key.err # "none" THEN [b EXCEPT !.err = key.err]
    ELSE LET ak == add_key(b, key.val) IN
         append_object(append_variant_impl(ak.b, value, metadata, h.data_start + offset.val),
                       value, metadata, h, start, i + 1,
                       Append(fields, FieldEntry(key.val, ak.id, b.write_pos - start)))

\* _append_object from index i on; fields holds the entries of the fields
\* copied so far
append_object(b, value, metadata, h, start, i, fields) ==
    IF b.err # "none" \/ Len(fields) # i THEN b
    ELSE IF i >= h.size THEN finish_writing_object(b, start, fields)
    ELSE append_object_entry(b, value, metadata, h, start, i, fields,
             read_unsigned(value, h.id_start + h.id_size * i, h.id_size),
             read_unsigned(value, h.offset_start + h.offset_size * i, h.offset_size),
             get_metadata_key(metadata,
                 read_unsigned(value, h.id_start + h.id_size * i, h.id_size).val))

append_array_entry(b, value, metadata, h, start, i, offsets, offset) ==
    IF offset.err # "none" THEN [b EXCEPT !.err = offset.err]
    ELSE append_array(append_variant_impl(b, value, metadata, h.data_start + offset.val),
                      value, metadata, h, start, i + 1, Append(offsets, b.write_pos - start))

append_array(b, value, metadata, h, start, i, offsets) ==
    IF b.err # "none" \/ Len(offsets) # i THEN b
    ELSE IF i >= h.size THEN finish_writing_array(b, start, offsets)
    ELSE append_array_entry(b, value, metadata, h, start, i, offsets,
             read_unsigned(value, h.offset_start + h.offset_size * i, h.offset_size))

\* the container branch of _append_variant_impl, with the header fields hr
append_container(b, value, metadata, is_object, hr) ==
    IF hr.err # "none" THEN [b EXCEPT !.err = hr.err]
    ELSE IF is_object THEN append_object(b, value, metadata, hr.h, b.write_pos, 0, <<>>)
    ELSE append_array(b, value, metadata, hr.h, b.write_pos, 0, <<>>)

append_variant_impl(b, value, metadata, pos) ==
    IF b.err # "none" THEN b
    ELSE IF ~check_index(pos, Len(value)) THEN [b EXCEPT !.err = "malformed"]
    ELSE IF basic_type_of(value, pos) = OBJECT
         THEN append_container(b, value, metadata, TRUE, handle_object(value, pos))
    ELSE IF basic_type_of(value, pos) = ARRAY
         THEN append_container(b, value, metadata, FALSE, handle_array(value, pos))
    ELSE shallow_append_variant_impl(b, value, pos)

append_variant(b, v) == append_variant_impl(b, v.value, v.metadata, v.pos)

shallow_append_variant(b, v) == shallow_append_variant_impl(b, v.value, v.pos)

\* bytes(write_buffer[:write_pos])
value_without_metadata(b) == Slice(b.write_buffer, 0, b.write_pos)

(***************************************************************************)
(* Inputs.                                                                 *)
(***************************************************************************)
MinInt64 == Negate(Pow2(63))
MaxInt64 == Sub1(Pow2(63))
LongInputs ==
    {FromInt(n) : n \in {0, 1, 127, 128, 255, 256, 32767, 32768, 65535, 65536,
                         2147483647, -1, -128, -129, -32768, -32769, -2147483647}}
      \cup {Pow2(31), Sub1(Pow2(32)), Pow2(32), MaxInt64, MinInt64,
            Negate(Pow2(31)), Sub1(Negate(Pow2(31)))}

Digits123(n) == [i \in 1..n |-> i % 10]

DecimalInputs ==
    { Dec(0, <<3, 5>>, -1),                 \* 3.5
      Dec(0, <<1, 2, 5, 0>>, -2),            \* 12.50
      Dec(0, <<1, 2, 5, 0>>, 0),             \* 1250
      Dec(0, <<0>>, -2),                     \* 0.00
      Dec(0, <<0>>, 0),                      \* 0
      Dec(0, <<1, 0, 0>>, 0),                \* 100
      Dec(0, <<1>>, 2),                      \* 1E+2
      Dec(0, <<1>>, 16),                     \* 1E+16
      Dec(1, <<1, 5>>, -1),                  \* -1.5
      Dec(0, Digits123(9), 0),               \* 123456789
      Dec(0, Digits123(9), -9),              \* 0.123456789
      Dec(0, Digits123(10), 0),              \* 1234567890
      Dec(0, Digits123(10), -10),            \* 0.1234567890
      Dec(0, Digits123(11), -6),             \* 12345.678901
      Dec(0, Digits123(18), -9),             \* 123456789.012345678
      Dec(0, Digits123(18), 0),
      Dec(0, Digits123(19), -1),
      Dec(0, Digits123(19), -19),
      Dec(0, Digits123(28), -3),
      Dec(0, Digits123(29), -3),
      Dec(0, Rep(9, 38), 0),                 \* 38 nines
      Dec(0, Digits123(38), -38),
      Dec(0, <<1>>, -38),                    \* 1E-38
      Dec(0, <<1>>, -39),                    \* 1E-39
      Dec(0, <<1>>, 38) }                    \* 1E+38

Float(sign, digits, exp, bits) == [dec |-> Dec(sign, digits, exp), bits |-> bits]
FloatInputs ==
    { Float(0, <<3, 5>>, -1, <<0, 0, 0, 0, 0, 0, 12, 64>>),               \* 3.5
      Float(0, <<1>>, 16, <<0, 128, 224, 55, 121, 195, 65, 67>>),         \* 1e16
      Float(0, <<1>>, 22, <<146, 213, 77, 6, 207, 240, 128, 68>>),        \* 1e22
      Float(0, <<1>>, -1, <<154, 153, 153, 153, 153, 153, 185, 63>>),     \* 0.1
      Float(0, <<1>>, -5, <<241, 104, 227, 136, 181, 248, 228, 62>>),     \* 1e-05
      Float(0, <<1, 0, 0, 0>>, -1, <<0, 0, 0, 0, 0, 0, 89, 64>>),         \* 100.0
      Float(0, <<1, 5>>, 299, <<53, 88, 0, 102, 45, 235, 65, 126>>),      \* 1.5e300
      Float(0, <<1>>, -40, <<156, 87, 119, 39, 38, 108, 161, 55>>),       \* 1e-40
      Float(0, <<1, 2, 3, 4, 5, 6, 7, 8, 9, 0, 1, 2, 5>>, -1,
            <<0, 128, 20, 26, 153, 190, 60, 66>>),                        \* 123456789012.5
      Float(1, <<2, 5>>, -1, <<0, 0, 0, 0, 0, 0, 4, 192>>) }              \* -2.5

NoLast == [op |-> "none"]

(***************************************************************************)
(* ScalarSpec: a client appends scalar values to a fresh builder.          *)
(***************************************************************************)
ScalarInit ==
    /\ builder = NewBuilder(FALSE)
    /\ frames = <<>>
    /\ appended = 0
    /\ last = NoLast
    /\ variant = [op |-> "none"]
    /\ sz = [op |-> "none"]
    /\ shred = [op |-> "none"]
    /\ step = 0

CanAppendScalar == builder.err = "none" /\ builder.write_pos <= MaxStartPos

AppendLong(l) ==
    /\ CanAppendScalar
    /\ builder' = append_long(builder, l)
    /\ last' = [op |-> "append_long", long |-> l, pos |-> builder.write_pos]
    /\ UNCHANGED <<frames, appended, variant, sz, shred, step>>

AppendDecimal(d) ==
    /\ CanAppendScalar
    /\ builder' = append_decimal(builder, d)
    /\ last' = [op |-> "append_decimal", dec |-> d, pos |-> builder.write_pos]
    /\ UNCHANGED <<frames, appended, variant, sz, shred, step>>

BuildJsonFloat(f) ==
    /\ CanAppendScalar
    /\ builder' = build_json_float(builder, f)
    /\ last' = [op |-> "build_json_float", dec |-> f.dec, bits |-> f.bits,
                pos |-> builder.write_pos]
    /\ UNCHANGED <<frames, appended, variant, sz, shred, step>>

ScalarNext ==
    \/ \E l \in LongInputs : AppendLong(l)
    \/ \E d \in DecimalInputs : AppendDecimal(d)
    \/ \E f \in FloatInputs : BuildJsonFloat(f)

ScalarSpec == ScalarInit /\ [][ScalarNext]_vars

(***************************************************************************)
(* Spec: a client drives one builder through its public operations, the    *)
(* way build_json, _append_object and _rebuild do: it records a FieldEntry *)
(* (or an offset) for each child, appends the child, and finishes the      *)
(* container; finally it calls result().  frames is the client's stack of  *)
(* open containers: [kind, start, fields, offsets].                        *)
(***************************************************************************)
Keys == {<<97>>, <<98>>, <<97, 98>>}                       \* "a", "b", "ab"
JNull == [t |-> "null"]
JInt(n) == [t |-> "int", l |-> FromInt(n)]
JStr(str) == [t |-> "str", s |-> str]
JArr(items) == [t |-> "arr", items |-> items]
JObj(items) == [t |-> "obj", items |-> items]
Item(key, val) == [key |-> key, val |-> val]
ScalarValues == {JNull, JStr(<<104, 105>>)}                \* null, "hi"

\* {"k<n-1>": n-1, ..., "k01": 1, "k00": 0}
WideKey(i) == <<107, 48 + (i \div 10), 48 + (i % 10)>>
WideObject(n) == JObj([i \in 1..n |-> Item(WideKey(n - i), JInt(n - i))])
WideSizes == {BINARY_SEARCH_THRESHOLD - 1, BINARY_SEARCH_THRESHOLD, BINARY_SEARCH_THRESHOLD + 1}
JsonDocs ==
    {WideObject(n) : n \in WideSizes}
      \cup { JObj(<<Item(<<98>>, JArr(<<JInt(1), JObj(<<Item(<<97>>, JNull)>>)>>)),
                    Item(<<97>>, [t |-> "bool", b |-> TRUE])>>),
             JObj(<<Item(<<122>>, JInt(300)), Item(<<233>>, JStr(<<233>>)),
                    Item(<<97>>, JInt(-1))>>),
             JArr(<<JObj(<<>>), JArr(<<>>), JStr(<<>>)>>) }

Init ==
    /\ builder \in {NewBuilder(dup) : dup \in BOOLEAN}
    /\ frames = <<>>
    /\ appended = 0
    /\ last = NoLast
    /\ variant = [op |-> "none"]
    /\ sz = [op |-> "none"]
    /\ shred = [op |-> "none"]
    /\ step = 0

Top == frames[Len(frames)]
Building == builder.err = "none" /\ variant.op = "none"
NewFrame(kind, start) == [kind |-> kind, start |-> start, fields |-> <<>>, offsets |-> <<>>]

\* a value may start at the root of an empty builder or inside an open container
AtRoot == frames = <<>> /\ builder.write_pos = 0 /\ appended = 0
InObject == frames # <<>> /\ Top.kind = "obj"
InArray == frames # <<>> /\ Top.kind = "arr"

WithField(key, id) ==
    [frames EXCEPT ![Len(frames)].fields =
        Append(@, FieldEntry(key, id, builder.write_pos - Top.start))]
WithElement ==
    [frames EXCEPT ![Len(frames)].offsets = Append(@, builder.write_pos - Top.start)]

AppendField(key, val) ==
    /\ Building /\ InObject /\ appended < MaxValues
    /\ LET ak == add_key(builder, key) IN
       /\ builder' = build_json(ak.b, val)
       /\ frames' = WithField(key, ak.id)
    /\ appended' = appended + 1
    /\ last' = [op |-> "append_field", key |-> key, val |-> val, pos |-> builder.write_pos]
    /\ UNCHANGED <<variant, sz, shred, step>>

AppendElement(val) ==
    /\ Building /\ (InArray \/ AtRoot) /\ appended < MaxValues
    /\ builder' = build_json(builder, val)
    /\ frames' = IF InArray THEN WithElement ELSE frames
    /\ appended' = appended + 1
    /\ last' = [op |-> "append_element", val |-> val, pos |-> builder.write_pos]
    /\ UNCHANGED <<variant, sz, shred, step>>

OpenField(key, kind) ==
    /\ Building /\ InObject /\ appended < MaxValues /\ Len(frames) < MaxDepth
    /\ LET ak == add_key(builder, key) IN
       /\ builder' = ak.b
       /\ frames' = Append(WithField(key, ak.id), NewFrame(kind, builder.write_pos))
    /\ appended' = appended + 1
    /\ last' = [op |-> "open", kind |-> kind, pos |-> builder.write_pos]
    /\ UNCHANGED <<variant, sz, shred, step>>

OpenElement(kind) ==
    /\ Building /\ (InArray \/ AtRoot) /\ appended < MaxValues /\ Len(frames) < MaxDepth
    /\ frames' = Append(IF InArray THEN WithElement ELSE frames,
                        NewFrame(kind, builder.write_pos))
    /\ appended' = appended + 1
    /\ last' = [op |-> "open", kind |-> kind, pos |-> builder.write_pos]
    /\ UNCHANGED <<builder, variant, sz, shred, step>>

FinishObject ==
    /\ Building /\ InObject
    /\ builder' = finish_writing_object(builder, Top.start, Top.fields)
    /\ frames' = SubSeq(frames, 1, Len(frames) - 1)
    /\ last' = [op |-> "finish_object", start |-> Top.start, fields |-> Top.fields,
                before |-> builder]
    /\ UNCHANGED <<appended, variant, sz, shred, step>>

FinishArray ==
    /\ Building /\ InArray
    /\ builder' = finish_writing_array(builder, Top.start, Top.offsets)
    /\ frames' = SubSeq(frames, 1, Len(frames) - 1)
    /\ last' = [op |-> "finish_array", start |-> Top.start, offsets |-> Top.offsets,
                before |-> builder]
    /\ UNCHANGED <<appended, variant, sz, shred, step>>

BuildJson(doc) ==
    /\ Building /\ AtRoot
    /\ builder' = build_json(builder, doc)
    /\ appended' = MaxValues
    /\ last' = [op |-> "build_json", doc |-> doc, pos |-> builder.write_pos]
    /\ UNCHANGED <<frames, variant, sz, shred, step>>

Result ==
    /\ Building /\ frames = <<>> /\ builder.write_pos > 0
    /\ variant' = [op |-> "result", v |-> result(builder)]
    /\ UNCHANGED <<builder, frames, appended, last, sz, shred, step>>

\* the root of the Variant v and the children of the root
SubVariantPositions(v) ==
    {v.pos}
      \cup (IF basic_type_of(v.value, v.pos) = OBJECT
            THEN {get_field_at_index(v, i).pos : i \in 0..(object_size(v).val - 1)}
            ELSE IF basic_type_of(v.value, v.pos) = ARRAY
            THEN {get_element_at_index(v, i).pos : i \in 0..(array_size(v).val - 1)}
            ELSE {})

\* a fresh strict builder copies the Variant at pos of the result and
\* finalizes
AppendVariant ==
    /\ variant.op = "result" /\ variant.v.err = "none"
    /\ \E pos \in SubVariantPositions(variant.v) :
          LET b == append_variant(NewBuilder(FALSE), [variant.v EXCEPT !.pos = pos]) IN
          variant' = [op |-> "append_variant",
                      v |-> [variant.v EXCEPT !.pos = pos],
                      b |-> b,
                      copy |-> IF b.err = "none" THEN result(b)
                               ELSE [NoVariant EXCEPT !.err = b.err]]
    /\ UNCHANGED <<builder, frames, appended, last, sz, shred, step>>

Next ==
    \/ \E key \in Keys, val \in ScalarValues : AppendField(key, val)
    \/ \E val \in ScalarValues : AppendElement(val)
    \/ \E key \in Keys, kind \in {"obj", "arr"} : OpenField(key, kind)
    \/ \E kind \in {"obj", "arr"} : OpenElement(kind)
    \/ FinishObject
    \/ FinishArray
    \/ \E doc \in JsonDocs : BuildJson(doc)
    \/ Result
    \/ AppendVariant

Spec == Init /\ [][Next]_vars

(***************************************************************************)
(* SizeSpec: the sizes of one builder.  Buffers of 2^24 bytes are not      *)
(* enumerated; sz keeps what the size checks of the builder read and       *)
(* write: write_pos, len(write_buffer) (capacity), the number of keys of   *)
(* the dictionary with their total length in code points and in UTF-8      *)
(* bytes, and for every open container its start and its number of         *)
(* children.  Each field is added under a key that is not yet in the       *)
(* dictionary.  Assertions are enabled, as they are unless the interpreter *)
(* runs with -O.                                                           *)
(***************************************************************************)
MaxSizeOps == 4
MaxDictKeys == 3
MaxReadLen == 4
MaxNesting == 4

SizeKey(chars, bytes) == [chars |-> chars, bytes |-> bytes]

\* the encoded sizes of the appended values: 1 is a null, 9 a double, the
\* others a binary value of that size less 1 + U32_SIZE bytes
ValueSizes ==
    {1, 9, U8_MAX + 1, U16_MAX + 1, SIZE_LIMIT - 8, SIZE_LIMIT - 1, SIZE_LIMIT,
     SIZE_LIMIT + 1}
\* the lengths of the keys; the last one is a key of two-byte characters
KeySizes ==
    {SizeKey(1, 1), SizeKey(U8_MAX + 1, U8_MAX + 1), SizeKey(SIZE_LIMIT - 1, SIZE_LIMIT - 1),
     SizeKey(SIZE_LIMIT, SIZE_LIMIT), SizeKey(SIZE_LIMIT + 1, SIZE_LIMIT + 1),
     SizeKey(SIZE_LIMIT \div 2, SIZE_LIMIT)}

SizeInit ==
    /\ builder = NewBuilder(FALSE)
    /\ frames = <<>>
    /\ appended = 0
    /\ last = NoLast
    /\ variant = [op |-> "none"]
    /\ sz = [op |-> "init", write_pos |-> 0, capacity |-> INITIAL_CAPACITY,
             num_keys |-> 0, dictionary_string_size |-> 0, dictionary_byte_size |-> 0,
             frames |-> <<>>, ops |-> 0, err |-> "none",
             value_len |-> 0, metadata_len |-> 0]
    /\ shred = [op |-> "none"]
    /\ step = 0

SzTop == sz.frames[Len(sz.frames)]
SzBuilding == sz.err = "none" /\ sz.op # "result" /\ sz.ops < MaxSizeOps
SzAtRoot == sz.frames = <<>> /\ sz.write_pos = 0
SzInObject == sz.frames # <<>> /\ SzTop.kind = "obj"
SzInArray == sz.frames # <<>> /\ SzTop.kind = "arr"

\* _check_capacity(additional) followed by the write of additional bytes
sz_append(s, additional) ==
    LET cap == grown_capacity(s.capacity, s.write_pos, additional) IN
    IF cap = 0 THEN [s EXCEPT !.err = "size_limit"]
    ELSE [s EXCEPT !.capacity = cap, !.write_pos = s.write_pos + additional]

\* add_key of a key that is not in the dictionary
sz_add_key(s, key) ==
    [s EXCEPT !.num_keys = s.num_keys + 1,
              !.dictionary_string_size = s.dictionary_string_size + key.chars,
              !.dictionary_byte_size = s.dictionary_byte_size + key.bytes]

sz_child(s) ==
    IF s.frames = <<>> THEN s
    ELSE [s EXCEPT !.frames[Len(s.frames)].size = @ + 1]

\* finish_writing_object / finish_writing_array of the innermost container
sz_finish(s, is_object) ==
    LET top == s.frames[Len(s.frames)]
        data_size == s.write_pos - top.start
        id_size == IF is_object THEN get_integer_size(top.max_id) ELSE 1
        offset_size == get_integer_size(data_size)
        header_size == container_header_size(top.size, is_object, id_size, offset_size)
        popped == [s EXCEPT !.frames = SubSeq(s.frames, 1, Len(s.frames) - 1)]
    IN IF id_size = 0 \/ offset_size = 0 THEN [popped EXCEPT !.err = "assertion"]
       ELSE sz_append(popped, header_size)

\* result(): the metadata is sized by code points and filled with the UTF-8
\* bytes of the keys, which a slice assignment lets grow
sz_result(s) ==
    LET num_keys == s.num_keys
        dictionary_string_size == s.dictionary_string_size
        max_size == IF num_keys > 0
                    THEN (IF dictionary_string_size > num_keys
                          THEN dictionary_string_size ELSE num_keys)
                    ELSE 0
        offset_size == get_integer_size(max_size)
        offset_start == 1 + offset_size
        string_start == offset_start + (num_keys + 1) * offset_size
        metadata_size == string_start + dictionary_string_size
        metadata_len == string_start + s.dictionary_byte_size
    IN IF max_size > SIZE_LIMIT THEN [s EXCEPT !.err = "size_limit"]
       ELSE IF offset_size = 0 THEN [s EXCEPT !.err = "assertion"]
       ELSE IF metadata_size > SIZE_LIMIT THEN [s EXCEPT !.err = "size_limit"]
       ELSE IF metadata_len > SIZE_LIMIT \/ s.write_pos > SIZE_LIMIT
            THEN [s EXCEPT !.err = "constructor_size_limit"]
       ELSE [s EXCEPT !.value_len = s.write_pos, !.metadata_len = metadata_len]

SzStep(op, s) ==
    /\ sz' = [s EXCEPT !.op = op, !.ops = sz.ops + 1]
    /\ UNCHANGED <<builder, frames, appended, last, variant, shred, step>>

SzAppendValue(additional) ==
    /\ SzBuilding /\ (SzAtRoot \/ SzInArray)
    /\ SzStep("append", sz_append(sz_child(sz), additional))

SzAppendField(key, additional) ==
    /\ SzBuilding /\ SzInObject
    /\ SzStep("append_field",
              sz_append([sz_child(sz_add_key(sz, key))
                            EXCEPT !.frames[Len(sz.frames)].max_id = sz.num_keys],
                        additional))

SzOpen(kind) ==
    /\ SzBuilding /\ (SzAtRoot \/ SzInArray) /\ Len(sz.frames) < MaxDepth
    /\ SzStep("open",
              [sz_child(sz) EXCEPT !.frames =
                  Append(@, [kind |-> kind, start |-> sz.write_pos, size |-> 0,
                             max_id |-> 0])])

SzFinishObject ==
    /\ sz.err = "none" /\ sz.op # "result" /\ SzInObject
    /\ SzStep("finish_object", sz_finish(sz, TRUE))

SzFinishArray ==
    /\ sz.err = "none" /\ sz.op # "result" /\ SzInArray
    /\ SzStep("finish_array", sz_finish(sz, FALSE))

SzResult ==
    /\ sz.err = "none" /\ sz.op \notin {"init", "result"} /\ sz.frames = <<>>
    /\ SzStep("result", sz_result(sz))

SizeNext ==
    \/ \E additional \in ValueSizes : SzAppendValue(additional)
    \/ \E key \in KeySizes, additional \in ValueSizes : SzAppendField(key, additional)
    \/ \E kind \in {"obj", "arr"} : SzOpen(kind)
    \/ SzFinishObject
    \/ SzFinishArray
    \/ SzResult

SizeSpec == SizeInit /\ [][SizeNext]_vars

(***************************************************************************)
(* C7: every builder operation either completes with the value buffer and  *)
(* the metadata each at most 2^24 bytes long or fails with the size-limit  *)
(* error (the builder's, or the one of the Variant constructor); a size    *)
(* overrun is never reported as another kind of error, up to and including *)
(* the sizes where the data of a container or the strings of the           *)
(* dictionary total exactly 2^24.                                          *)
(***************************************************************************)
C7_SizeLimitOnly ==
    (sz.op # "none") =>
        /\ sz.err \in {"none", "size_limit", "constructor_size_limit"}
        /\ sz.err = "none" =>
              /\ sz.write_pos <= SIZE_LIMIT
              /\ sz.value_len <= SIZE_LIMIT
              /\ sz.metadata_len <= SIZE_LIMIT

(***************************************************************************)
(* C1: append_long(x) writes the smallest INT width that contains x:       *)
(* INT1 with a 1-byte payload iff -128 <= x < 128, otherwise INT2 iff      *)
(* -32768 <= x < 32768, otherwise INT4 iff -2^31 <= x < 2^31, otherwise    *)
(* INT8 -- for negative as well as non-negative x.                         *)
(***************************************************************************)
InRange(x, bits) == Leq(Negate(Pow2(bits - 1)), x) /\ Less(x, Pow2(bits - 1))
SmallestIntType(x) ==
    IF InRange(x, 8) THEN INT1
    ELSE IF InRange(x, 16) THEN INT2
    ELSE IF InRange(x, 32) THEN INT4
    ELSE INT8
IntPayloadSize(t) ==
    IF t = INT1 THEN 1 ELSE IF t = INT2 THEN 2 ELSE IF t = INT4 THEN 4 ELSE 8

C1_SmallestIntWidth ==
    (last.op = "append_long" /\ builder.err = "none") =>
        /\ basic_type_of(builder.write_buffer, last.pos) = PRIMITIVE
        /\ get_type_info(builder.write_buffer, last.pos) = SmallestIntType(last.long)
        /\ builder.write_pos - last.pos = 1 + IntPayloadSize(SmallestIntType(last.long))

(***************************************************************************)
(* C2: writing x with append_long and reading it back with get_long        *)
(* returns exactly x, for every signed 64-bit x.                           *)
(***************************************************************************)
C2_LongRoundTrip ==
    (last.op = "append_long" /\ builder.err = "none") =>
        LET r == get_long(builder.write_buffer, last.pos) IN
        r.err = "none" /\ r.val = last.long

(***************************************************************************)
(* C8: for every decimal d with scale in [0, 38] and at most 38            *)
(* significant digits, append_decimal(d) chooses DECIMAL4 iff the unscaled *)
(* value has at most 9 significant digits, otherwise DECIMAL8 iff at most  *)
(* 18, otherwise DECIMAL16; so the unscaled value fits the mantissa that   *)
(* is written and is never truncated.                                      *)
(***************************************************************************)
InDecimalDomain(d) ==
    decimal_scale(d) <= MAX_DECIMAL16_PRECISION /\ Len(d.digits) <= MAX_DECIMAL16_PRECISION
SmallestDecimalType(d) ==
    IF Len(d.digits) <= MAX_DECIMAL4_PRECISION THEN DECIMAL4
    ELSE IF Len(d.digits) <= MAX_DECIMAL8_PRECISION THEN DECIMAL8
    ELSE DECIMAL16
MantissaSize(t) == IF t = DECIMAL4 THEN 4 ELSE IF t = DECIMAL8 THEN 8 ELSE 16
WrittenType == get_type_info(builder.write_buffer, last.pos)
WrittenScale == builder.write_buffer[last.pos + 2]
\* the on-wire mantissa: a little-endian two's complement integer
WrittenMantissa ==
    SignExtend(Slice(builder.write_buffer, last.pos + 2, MantissaSize(WrittenType)))

C8_DecimalSelection ==
    (last.op = "append_decimal" /\ InDecimalDomain(last.dec)) =>
        /\ builder.err = "none"
        /\ basic_type_of(builder.write_buffer, last.pos) = PRIMITIVE
        /\ WrittenType = SmallestDecimalType(last.dec)
        /\ WrittenMantissa = decimal_unscaled(last.dec)

(***************************************************************************)
(* C9: for every JSON number that build_json receives as a float and       *)
(* encodes as a decimal, the number decoded from the result (get_decimal,  *)
(* which is also what to_json prints) is numerically equal to the input,   *)
(* whether its decimal form has a negative, zero or positive exponent.     *)
(***************************************************************************)
EncodedAsDecimal ==
    /\ basic_type_of(builder.write_buffer, last.pos) = PRIMITIVE
    /\ WrittenType \in {DECIMAL4, DECIMAL8, DECIMAL16}

C9_JsonFloatRoundTrip ==
    (last.op = "build_json_float" /\ builder.err = "none" /\ EncodedAsDecimal) =>
        LET r == get_decimal(builder.write_buffer, last.pos) IN
        r.err = "none" /\ NumEq(r.val, last.dec)

(***************************************************************************)
(* C10: for every DECIMAL4/8/16 value with on-wire scale byte s and        *)
(* mantissa m, get_decimal_with_original_scale returns a decimal           *)
(* numerically equal to m * 10^-s whose scale (negated exponent) is        *)
(* exactly s, also when m ends in zero digits; get_decimal returns the     *)
(* same number with trailing zeros stripped.                               *)
(***************************************************************************)
WireDecimal ==
    LET m == decimal_from_int(WrittenMantissa) IN Dec(m.sign, m.digits, 0 - WrittenScale)

C10_OriginalScale ==
    (last.op = "append_decimal" /\ builder.err = "none") =>
        LET r == get_decimal_with_original_scale(builder.write_buffer, last.pos)
            n == get_decimal(builder.write_buffer, last.pos)
        IN /\ r.err = "none"
           /\ NumEq(r.val, WireDecimal)
           /\ r.val.exp = 0 - WrittenScale
           /\ n.err = "none"
           /\ n.val = StripAll(WireDecimal)

(***************************************************************************)
(* Reading an object back: the keys of its id table in storage order, and  *)
(* the position of each stored value.                                      *)
(***************************************************************************)
ByteLess(a, b) == StrLess(utf8_encode(a), utf8_encode(b))

StoredId(buf, h, i) == read_unsigned(buf, h.id_start + h.id_size * i, h.id_size).val
StoredOffset(buf, h, i) ==
    read_unsigned(buf, h.offset_start + h.offset_size * i, h.offset_size).val
StoredKey(buf, h, i, dict) == dict[StoredId(buf, h, i) + 1]

\* every object in the value at pos (the value itself and all its
\* descendants) has strictly increasing keys
RECURSIVE ObjectsOrdered(_, _, _)
ObjectsOrdered(buf, pos, dict) ==
    IF basic_type_of(buf, pos) = OBJECT
    THEN LET hr == handle_object(buf, pos)
             h == hr.h
         IN /\ hr.err = "none"
            /\ \A i \in 0..(h.size - 2) :
                  ByteLess(StoredKey(buf, h, i, dict), StoredKey(buf, h, i + 1, dict))
            /\ \A i \in 0..(h.size - 1) :
                  ObjectsOrdered(buf, h.data_start + StoredOffset(buf, h, i), dict)
    ELSE IF basic_type_of(buf, pos) = ARRAY
    THEN LET hr == handle_array(buf, pos)
             h == hr.h
         IN /\ hr.err = "none"
            /\ \A i \in 0..(h.size - 1) :
                  ObjectsOrdered(buf, h.data_start + StoredOffset(buf, h, i), dict)
    ELSE TRUE

\* the keys of the metadata of a Variant, by id
MetadataKeys(v) ==
    LET offset_size == ((v.metadata[1] \div 64) % 4) + 1
        dict_size == read_unsigned(v.metadata, 1, offset_size).val
    IN [n \in 1..dict_size |-> get_metadata_key(v.metadata, n - 1).val]

LookupKeys == Keys \cup {WideKey(0), WideKey(BINARY_SEARCH_THRESHOLD - 1), <<122>>, <<233>>, <<99>>}

C4_FieldLookup ==
    (variant.op = "result" /\ variant.v.err = "none"
        /\ basic_type_of(variant.v.value, variant.v.pos) = OBJECT) =>
        LET v == variant.v
            size == handle_object(v.value, v.pos).h.size
        IN \A k \in LookupKeys :
              LET r == get_field_by_key(v, k)
                  stored == {i \in 0..(size - 1) : get_field_at_index(v, i).key = k}
              IN /\ r.err = "none"
                 /\ r.found = (stored # {})
                 /\ \A i \in stored : r.pos = get_field_at_index(v, i).pos

(***************************************************************************)
(* C5: with allow_duplicate_keys = false, finish_writing_object raises the *)
(* duplicate-key error exactly when two entries of the field list have the *)
(* same key, wherever they sit in the list.                                *)
(***************************************************************************)
SomeKeyRepeated(fields) ==
    \E i, j \in 1..Len(fields) : i < j /\ fields[i].key = fields[j].key

C5_StrictDuplicateKey ==
    (last.op = "finish_object" /\ ~last.before.allow_duplicate_keys) =>
        ((builder.err = "duplicate_key") <=> SomeKeyRepeated(last.fields))

\* the error was raised for two equal keys that were not added one after
\* the other
C5_Witness ==
    /\ last.op = "finish_object" /\ ~last.before.allow_duplicate_keys
    /\ builder.err = "duplicate_key"
    /\ Len(last.fields) = 3
    /\ last.fields[1].key = last.fields[3].key
    /\ last.fields[2].key # last.fields[1].key

(***************************************************************************)
(* C6: with allow_duplicate_keys = true, after finish_writing_object the   *)
(* object holds exactly one field per distinct key; the value stored for a *)
(* key is the payload of the entry with the greatest offset among the      *)
(* entries of that key, byte for byte as it was appended; the retained     *)
(* payloads lie contiguously from the start of the data region in their    *)
(* original write order, and the length of the data region is the sum of   *)
(* their sizes.                                                            *)
(***************************************************************************)
EntrySet(fields) == {fields[i] : i \in 1..Len(fields)}
Retained(fields) ==
    {f \in EntrySet(fields) :
        \A g \in EntrySet(fields) : g.key = f.key => g.offset <= f.offset}
PayloadSize(buf, start, f) == value_size(buf, start + f.offset).val

RECURSIVE SumPayloadSizes(_, _, _)
SumPayloadSizes(buf, start, entries) ==
    IF entries = {} THEN 0
    ELSE LET f == CHOOSE e \in entries : TRUE
         IN PayloadSize(buf, start, f) + SumPayloadSizes(buf, start, entries \ {f})

\* where a retained entry lands: after the retained entries written before it
PackedOffset(buf, start, fields, f) ==
    SumPayloadSizes(buf, start, {g \in Retained(fields) : g.offset < f.offset})

C6_LenientLastWriterWins ==
    (last.op = "finish_object" /\ last.before.allow_duplicate_keys) =>
        LET old == last.before.write_buffer
            buf == builder.write_buffer
            start == last.start
            h == handle_object(buf, start).h
            kept == Retained(last.fields)
            total == SumPayloadSizes(old, start, kept)
        IN /\ builder.err = "none"
           /\ h.size = Cardinality({f.key : f \in EntrySet(last.fields)})
           /\ \A i, j \in 0..(h.size - 1) :
                 i # j => StoredKey(buf, h, i, builder.dictionary_keys)
                            # StoredKey(buf, h, j, builder.dictionary_keys)
           /\ \A f \in kept :
                 \E i \in 0..(h.size - 1) :
                    /\ StoredKey(buf, h, i, builder.dictionary_keys) = f.key
                    /\ StoredOffset(buf, h, i) = PackedOffset(old, start, last.fields, f)
                    /\ Slice(buf, h.data_start + StoredOffset(buf, h, i),
                             PayloadSize(old, start, f))
                         = Slice(old, start + f.offset, PayloadSize(old, start, f))
           /\ StoredOffset(buf, h, h.size) = total
           /\ builder.write_pos = h.data_start + total

\* a key was added twice and a retained payload had to move down
C6_Witness ==
    /\ last.op = "finish_object" /\ last.before.allow_duplicate_keys
    /\ builder.err = "none"
    /\ SomeKeyRepeated(last.fields)
    /\ \E f \in Retained(last.fields) :
          /\ PackedOffset(last.before.write_buffer, last.start, last.fields, f) > 0
          /\ PackedOffset(last.before.write_buffer, last.start, last.fields, f) < f.offset

(***************************************************************************)
(* The logical tree of the value at pos: for an object the keys (resolved  *)
(* through the metadata) and the trees of the values in storage order, for *)
(* an array the trees of the elements in order, for a scalar its bytes.    *)
(* to_json prints exactly this tree.                                       *)
(***************************************************************************)
RECURSIVE LogicalTree(_, _, _)
LogicalTree(value, metadata, pos) ==
    IF basic_type_of(value, pos) = OBJECT
    THEN LET h == handle_object(value, pos).h IN
         [t |-> "obj",
          items |-> [i \in 1..h.size |->
                       [key |-> get_metadata_key(metadata, StoredId(value, h, i - 1)),
                        val |-> LogicalTree(value, metadata,
                                            h.data_start + StoredOffset(value, h, i - 1))]]]
    ELSE IF basic_type_of(value, pos) = ARRAY
    THEN LET h == handle_array(value, pos).h IN
         [t |-> "arr",
          items |-> [i \in 1..h.size |->
                       LogicalTree(value, metadata,
                                   h.data_start + StoredOffset(value, h, i - 1))]]
    ELSE [t |-> "scalar", bytes |-> Slice(value, pos, value_size(value, pos).val)]

TreeOf(v) == LogicalTree(v.value, v.metadata, v.pos)

\* the value at wpos of w has the byte layout of the value at pos of v, ids
\* aside: the same sizes, the same offsets (so the same order of the
\* payloads), the same keys at each index, the same scalar bytes
RECURSIVE SameLayout(_, _, _, _)
SameLayout(v, pos, w, wpos) ==
    IF basic_type_of(v.value, pos) # basic_type_of(w.value, wpos) THEN FALSE
    ELSE IF basic_type_of(v.value, pos) \in {OBJECT, ARRAY}
    THEN LET is_object == basic_type_of(v.value, pos) = OBJECT
             h == IF is_object THEN handle_object(v.value, pos).h
                  ELSE handle_array(v.value, pos).h
             g == IF is_object THEN handle_object(w.value, wpos).h
                  ELSE handle_array(w.value, wpos).h
         IN /\ h.size = g.size
            /\ \A i \in 0..h.size : StoredOffset(v.value, h, i) = StoredOffset(w.value, g, i)
            /\ \A i \in 0..(h.size - 1) :
                  /\ is_object =>
                        get_metadata_key(v.metadata, StoredId(v.value, h, i))
                          = get_metadata_key(w.metadata, StoredId(w.value, g, i))
                  /\ SameLayout(v, h.data_start + StoredOffset(v.value, h, i),
                                w, g.data_start + StoredOffset(w.value, g, i))
    ELSE Slice(v.value, pos, value_size(v.value, pos).val)
           = Slice(w.value, wpos, value_size(w.value, wpos).val)

(***************************************************************************)
(* C11 (as stated): a fresh strict builder that append_variant's a valid   *)
(* Variant v and finalizes yields v' with the same logical tree as v, every *)
(* key of v' resolving through the new metadata to the key string it had   *)
(* in v, and with bytes that differ from v's only by the renumbering of    *)
(* the dictionary ids.                                                     *)
(***************************************************************************)
C11_AppendVariantRoundTrip ==
    (variant.op = "append_variant") =>
        /\ variant.copy.err = "none"
        /\ TreeOf(variant.copy) = TreeOf(variant.v)
        /\ SameLayout(variant.v, variant.v.pos, variant.copy, variant.copy.pos)

(***************************************************************************)
(* C11 (amended): v' has the same logical tree as v (node types, scalar    *)
(* bytes, element order, keys and values of every object), every key of v' *)
(* resolving through the new metadata to the key string it had in v.       *)
(***************************************************************************)
C11_AppendVariantSameTree ==
    (variant.op = "append_variant") =>
        /\ variant.copy.err = "none"
        /\ TreeOf(variant.copy) = TreeOf(variant.v)

\* an object with a nested container was copied and its ids were renumbered
C11_Witness ==
    /\ variant.op = "append_variant" /\ variant.copy.err = "none"
    /\ basic_type_of(variant.v.value, variant.v.pos) = OBJECT
    /\ LET h == handle_object(variant.v.value, variant.v.pos).h
           g == handle_object(variant.copy.value, variant.copy.pos).h
       IN /\ h.size >= 2
          /\ \E i \in 0..(h.size - 1) :
                /\ StoredId(variant.v.value, h, i) # StoredId(variant.copy.value, g, i)
                /\ basic_type_of(variant.v.value,
                                 h.data_start + StoredOffset(variant.v.value, h, i))
                     \in {OBJECT, ARRAY}

(***************************************************************************)
(* Shredding schemas (variant_schema.py).  An optional value is <<>>       *)
(* (None) or <<x>>.                                                        *)
(***************************************************************************)
None == <<>>
Some(x) == <<x>>

IntegralType(size) == [t |-> "IntegralType", size |-> size]
DecimalType(precision, scale) ==
    [t |-> "DecimalType", precision |-> precision, scale |-> scale]
ScalarType(t) == [t |-> t]

ObjectField(field_name, schema) == [field_name |-> field_name, schema |-> schema]

VariantSchema(typed_idx, variant_idx, top_level_metadata_idx, num_fields, scalar_schema, object_schema, array_schema) ==
    [typed_idx |-> typed_idx, variant_idx |-> variant_idx,
     top_level_metadata_idx |-> top_level_metadata_idx, num_fields |-> num_fields,
     scalar_schema |-> scalar_schema, object_schema |-> object_schema,
     array_schema |-> array_schema]

\* object_schema_map.get(key): the index of the last field of that name,
\* -1 for None (the map is empty when object_schema is None or empty)
object_schema_map_get_none(schema, key) == -1

object_schema_map_get(schema, key) ==
    IF schema.object_schema = None THEN -1
    ELSE LET fields == schema.object_schema[1]
             idxs == {i \in 1..Len(fields) : fields[i].field_name = key}
         IN IF idxs = {} THEN -1
            ELSE (CHOOSE i \in idxs : \A j \in idxs : j <= i) - 1

\* key in schema.object_schema_map
in_object_schema_map_never(schema, key) == FALSE

in_object_schema_map(schema, key) ==
    /\ schema.object_schema # None
    /\ \E i \in 1..Len(schema.object_schema[1]) :
           schema.object_schema[1][i].field_name = key

is_unshredded(schema) ==
    schema.top_level_metadata_idx >= 0 /\ schema.variant_idx >= 0 /\ schema.typed_idx < 0

(***************************************************************************)
(* The host's side of shredding (ShreddedResult, ShreddedResultBuilder,    *)
(* ShreddedRow).  A result is a record [cols], one optional value for each *)
(* of the schema's num_fields columns; each add_* stores its argument in   *)
(* the column the schema assigns to it, and the row read back holds        *)
(* exactly what was stored.                                                *)
(***************************************************************************)
create_empty(schema) == [cols |-> [i \in 1..schema.num_fields |-> None]]

add_metadata(res, schema, metadata) ==
    [res EXCEPT !.cols[schema.top_level_metadata_idx + 1] =
                       Some([k |-> "binary", bytes |-> metadata])]
add_variant_value(res, schema, value) ==
    [res EXCEPT !.cols[schema.variant_idx + 1] = Some([k |-> "binary", bytes |-> value])]
add_scalar(res, schema, typed_value) ==
    [res EXCEPT !.cols[schema.typed_idx + 1] = Some([k |-> "scalar", val |-> typed_value])]
add_array(res, schema, array) ==
    [res EXCEPT !.cols[schema.typed_idx + 1] = Some([k |-> "array", array |-> array])]
add_object(res, schema, values) ==
    [res EXCEPT !.cols[schema.typed_idx + 1] = Some([k |-> "object", values |-> values])]

is_null_at(row, ordinal) == row.cols[ordinal + 1] = None
row_get(row, ordinal) == row.cols[ordinal + 1][1]

\* the Python values a scalar getter returns
PyInt(int_val) == [t |-> "int", int |-> int_val]
PyDecimal(d) == [t |-> "Decimal", dec |-> d]
PyBool(bool) == [t |-> "bool", bool |-> bool]
PyStr(str) == [t |-> "str", str |-> str]
PyBytes(t, bytes) == [t |-> t, bytes |-> bytes]

(***************************************************************************)
(* The shredding writer (variant_shredding_writer.py).  _try_typed_shred   *)
(* gives [err, typed]: typed is None or the scalar to store.               *)
(***************************************************************************)
NotTyped == [err |-> "none", typed |-> None]
Typed(x) == [err |-> "none", typed |-> Some(x)]
TypedOrErr(r, x) == IF r.err # "none" THEN [err |-> r.err, typed |-> None] ELSE Typed(x)

in_range(value, lo_bits, hi_bits) ==
    Leq(Negate(Pow2(lo_bits)), value) /\ Leq(value, Sub1(Pow2(hi_bits)))

\* the range check of an IntegralSize
fits_integral_size(size, value) ==
    CASE size = "BYTE" -> in_range(value, 7, 7)
      [] size = "SHORT" -> in_range(value, 15, 15)
      [] size = "INT" -> in_range(value, 31, 31)
      [] size = "LONG" -> TRUE

\* len(str(d.normalize())) - 1 <= precision
fits_precision(d, precision) == Len(decimal_str(decimal_normalize(d))) - 1 <= precision

shred_long_to_decimal(value, target_type) ==
    LET decimal_value == decimal_from_int(value)
        scaled_value == decimal_scaleb(decimal_value, target_type.scale)
    IN IF ~NumEq(decimal_value, scaled_value) THEN [err |-> "assertion", typed |-> None]
       ELSE IF fits_precision(scaled_value, target_type.precision)
            THEN Typed(PyDecimal(scaled_value))
       ELSE NotTyped

shred_decimal_to_decimal(value, target_type, allow_numeric_scale_changes) ==
    IF fits_precision(value, target_type.precision) /\ value.exp = 0 - target_type.scale
    THEN Typed(PyDecimal(value))
    ELSE IF allow_numeric_scale_changes
    THEN LET scaled_value == decimal_scaleb(value, value.exp + target_type.scale) IN
         IF NumEq(scaled_value, value) /\ fits_precision(scaled_value, target_type.precision)
         THEN Typed(PyDecimal(scaled_value))
         ELSE NotTyped
    ELSE NotTyped

shred_decimal_to_integral(value, size) ==
    LET int_val == decimal_to_int(value) IN
    IF fits_integral_size(size, int_val) /\ NumEq(decimal_from_int(int_val), value)
    THEN Typed(PyInt(int_val))
    ELSE NotTyped

\* the branches of _try_typed_shred, each on the value its getter gave
long_to_integral(value, target_type) ==
    IF value.err # "none" THEN [err |-> value.err, typed |-> None]
    ELSE IF fits_integral_size(target_type.size, value.val) THEN Typed(PyInt(value.val))
    ELSE NotTyped

long_to_decimal(value, target_type) ==
    IF value.err # "none" THEN [err |-> value.err, typed |-> None]
    ELSE shred_long_to_decimal(value.val, target_type)

decimal_to_decimal(value, target_type, allow_numeric_scale_changes) ==
    IF value.err # "none" THEN [err |-> value.err, typed |-> None]
    ELSE shred_decimal_to_decimal(value.val, target_type, allow_numeric_scale_changes)

decimal_to_integral(value, target_type) ==
    IF value.err # "none" THEN [err |-> value.err, typed |-> None]
    ELSE shred_decimal_to_integral(value.val, target_type.size)

TypedBool(r) == TypedOrErr(r, PyBool(r.val))
TypedStr(r) == TypedOrErr(r, PyStr(r.val))
TypedInt(r) == TypedOrErr(r, PyInt(r.val))
TypedBytes(kind, r) == TypedOrErr(r, PyBytes(kind, r.val))

try_typed_shred(v, variant_type, target_type, allow_numeric_scale_changes) ==
    IF variant_type = "LONG"
    THEN IF target_type.t = "IntegralType"
         THEN long_to_integral(get_long(v.value, v.pos), target_type)
         ELSE IF target_type.t = "DecimalType" /\ allow_numeric_scale_changes
         THEN long_to_decimal(get_long(v.value, v.pos), target_type)
         ELSE NotTyped
    ELSE IF variant_type = "DECIMAL"
    THEN IF target_type.t = "DecimalType"
         THEN decimal_to_decimal(get_decimal_with_original_scale(v.value, v.pos),
                                 target_type, allow_numeric_scale_changes)
         ELSE IF target_type.t = "IntegralType" /\ allow_numeric_scale_changes
         THEN decimal_to_integral(get_decimal(v.value, v.pos), target_type)
         ELSE NotTyped
    ELSE IF variant_type = "BOOLEAN"
    THEN IF target_type.t = "BooleanType"
         THEN TypedBool(get_boolean(v.value, v.pos))
         ELSE NotTyped
    ELSE IF variant_type = "STRING"
    THEN IF target_type.t = "StringType"
         THEN TypedStr(get_string(v.value, v.pos))
         ELSE NotTyped
    ELSE IF variant_type = "DOUBLE"
    THEN IF target_type.t = "DoubleType"
         THEN TypedBytes("float", get_double(v.value, v.pos))
         ELSE NotTyped
    ELSE IF variant_type = "DATE"
    THEN IF target_type.t = "DateType"
         THEN TypedInt(get_long(v.value, v.pos))
         ELSE NotTyped
    ELSE IF variant_type = "TIMESTAMP"
    THEN IF target_type.t = "TimestampType"
         THEN TypedInt(get_long(v.value, v.pos))
         ELSE NotTyped
    ELSE IF variant_type = "TIMESTAMP_NTZ"
    THEN IF target_type.t = "TimestampNTZType"
         THEN TypedInt(get_long(v.value, v.pos))
         ELSE NotTyped
    ELSE IF variant_type = "FLOAT"
    THEN IF target_type.t = "FloatType"
         THEN TypedBytes("float", get_float(v.value, v.pos))
         ELSE NotTyped
    ELSE IF variant_type = "BINARY"
    THEN IF target_type.t = "BinaryType"
         THEN TypedBytes("bytes", get_binary(v.value, v.pos))
         ELSE NotTyped
    ELSE IF variant_type = "UUID"
    THEN IF target_type.t = "UuidType"
         THEN TypedBytes("UUID", get_uuid(v.value, v.pos))
         ELSE NotTyped
    ELSE NotTyped

\* cast_shredded gives [err, result]
CastErr(e) == [err |-> e, result |-> [cols |-> <<>>]]
CastOk(res) == [err |-> "none", result |-> res]

RECURSIVE cast_shredded(_, _, _)
RECURSIVE cast_array_elements(_, _, _, _, _, _)
RECURSIVE cast_object_fields(_, _, _, _, _, _)

\* one turn of the loop over the elements of an array
cast_array_element(v, element_schema, allow, array, e) ==
    IF e.err # "none" THEN [err |-> e.err, array |-> array]
    ELSE LET r == cast_shredded([v EXCEPT !.pos = e.pos], element_schema, allow) IN
         IF r.err # "none" THEN [err |-> r.err, array |-> array]
         ELSE [err |-> "none", array |-> Append(array, r.result)]

cast_array_elements(v, element_schema, allow, size, i, acc) ==
    IF acc.err # "none" \/ i >= size THEN acc
    ELSE cast_array_elements(v, element_schema, allow, size, i + 1,
             cast_array_element(v, element_schema, allow, acc.array,
                                get_element_at_index(v, i)))

\* one turn of the loop over the fields of an object: st is the loop's state
\* [err, shredded_values, variant_builder, field_entries, num_fields_matched]
cast_field_at(v, schema, allow, i, st, field, field_idx) ==
    IF field_idx >= 0
    THEN LET r == cast_shredded([v EXCEPT !.pos = field.pos],
                                schema.object_schema[1][field_idx + 1].schema, allow) IN
         IF r.err # "none" THEN [st EXCEPT !.err = r.err]
         ELSE [st EXCEPT !.shredded_values[field_idx + 1] = Some(r.result),
                         !.num_fields_matched = @ + 1]
    ELSE LET id_val == get_dictionary_id_at_index(v, i)
             b == shallow_append_variant(st.variant_builder, [v EXCEPT !.pos = field.pos])
         IN IF id_val.err # "none" THEN [st EXCEPT !.err = id_val.err]
            ELSE IF b.err # "none" THEN [st EXCEPT !.err = b.err]
            ELSE [st EXCEPT !.field_entries =
                                Append(@, FieldEntry(field.key, id_val.val,
                                                     st.variant_builder.write_pos)),
                            !.variant_builder = b]

cast_object_field(v, schema, allow, i, st, field) ==
    IF field.err # "none" THEN [st EXCEPT !.err = field.err]
    ELSE cast_field_at(v, schema, allow, i, st, field,
                       object_schema_map_get(schema, field.key))

cast_object_fields(v, schema, allow, size, i, st) ==
    IF st.err # "none" \/ i >= size THEN st
    ELSE cast_object_fields(v, schema, allow, size, i + 1,
             cast_object_field(v, schema, allow, i, st, get_field_at_index(v, i)))

\* "Set missing fields to non-null with all fields set to null"
fill_missing(object_schema, st) ==
    IF st.num_fields_matched < Len(object_schema)
    THEN [st EXCEPT
            !.shredded_values =
                [i \in 1..Len(object_schema) |->
                    IF st.shredded_values[i] = None
                    THEN Some(create_empty(object_schema[i].schema))
                    ELSE st.shredded_values[i]],
            !.num_fields_matched =
                @ + Cardinality({i \in 1..Len(object_schema) : st.shredded_values[i] = None})]
    ELSE st

\* the residual: the fields left in variant_builder, finished as an object
add_residual(res, schema, st) ==
    IF st.variant_builder.write_pos # 0
    THEN LET b == finish_writing_object(st.variant_builder, 0, st.field_entries) IN
         IF b.err # "none" THEN CastErr(b.err)
         ELSE CastOk(add_variant_value(res, schema, value_without_metadata(b)))
    ELSE CastOk(res)

cast_object_finish(res, schema, st) ==
    IF st.err # "none" THEN CastErr(st.err)
    ELSE IF st.num_fields_matched # Len(schema.object_schema[1]) THEN CastErr("malformed")
    ELSE add_residual(add_object(res, schema, st.shredded_values), schema, st)

cast_array(v, schema, allow, res, size) ==
    IF size.err # "none" THEN CastErr(size.err)
    ELSE LET acc == cast_array_elements(v, schema.array_schema[1], allow, size.val, 0,
                                        [err |-> "none", array |-> <<>>]) IN
         IF acc.err # "none" THEN CastErr(acc.err)
         ELSE CastOk(add_array(res, schema, acc.array))

cast_object(v, schema, allow, res, size) ==
    IF size.err # "none" THEN CastErr(size.err)
    ELSE cast_object_finish(res, schema,
             fill_missing(schema.object_schema[1],
                 cast_object_fields(v, schema, allow, size.val, 0,
                     [err |-> "none",
                      shredded_values |-> [i \in 1..Len(schema.object_schema[1]) |-> None],
                      variant_builder |-> NewBuilder(FALSE),
                      field_entries |-> <<>>,
                      num_fields_matched |-> 0])))

cast_untyped(v, schema, res, value) ==
    IF value.err # "none" THEN CastErr(value.err)
    ELSE CastOk(add_variant_value(res, schema, value.val))

cast_scalar(v, schema, res, typed_value) ==
    IF typed_value.err # "none" THEN CastErr(typed_value.err)
    ELSE IF typed_value.typed # None
         THEN CastOk(add_scalar(res, schema, typed_value.typed[1]))
    ELSE cast_untyped(v, schema, res, get_value(v))

cast_typed(v, schema, allow, variant_type, res) ==
    IF schema.array_schema # None /\ variant_type = "ARRAY"
    THEN cast_array(v, schema, allow, res, array_size(v))
    ELSE IF schema.object_schema # None /\ variant_type = "OBJECT"
    THEN cast_object(v, schema, allow, res, object_size(v))
    ELSE IF schema.scalar_schema # None
    THEN cast_scalar(v, schema, res,
                     try_typed_shred(v, variant_type, schema.scalar_schema[1], allow))
    ELSE cast_untyped(v, schema, res, get_value(v))

cast_shredded(v, schema, allow) ==
    LET variant_type == get_type(v.value, v.pos) IN
    IF variant_type.err # "none" THEN CastErr(variant_type.err)
    ELSE cast_typed(v, schema, allow, variant_type.val,
                    IF schema.top_level_metadata_idx >= 0
                    THEN add_metadata(create_empty(schema), schema, v.metadata)
                    ELSE create_empty(schema))

(***************************************************************************)
(* Rebuilding (shredding_utils.py).  _rebuild appends to the builder b and *)
(* gives the builder back, its err set when an exception was raised.       *)
(***************************************************************************)
RECURSIVE rebuild_impl(_, _, _, _)
RECURSIVE rebuild_array_elements(_, _, _, _, _, _, _)
RECURSIVE rebuild_object_fields(_, _, _, _, _, _)
RECURSIVE rebuild_residual_fields(_, _, _, _, _, _)

\* Variant(value, metadata): the constructor's checks
NewVariant(value, metadata) ==
    [err |-> variant_init_err(value, metadata), value |-> value,
     metadata |-> metadata, pos |-> 0]

\* the typed column holds a scalar x of the schema's type
rebuild_scalar(b, scalar, x) ==
    CASE scalar.t = "StringType" -> append_string(b, x.str)
      [] scalar.t = "IntegralType" -> append_long(b, x.int)
      [] scalar.t = "FloatType" -> append_float(b, x.bytes)
      [] scalar.t = "DoubleType" -> append_double(b, x.bytes)
      [] scalar.t = "BooleanType" -> append_boolean(b, x.bool)
      [] scalar.t = "BinaryType" -> append_binary(b, x.bytes)
      [] scalar.t = "UuidType" -> append_uuid(b, x.bytes)
      [] scalar.t = "DecimalType" -> append_decimal(b, x.dec)
      [] scalar.t = "DateType" -> append_date(b, x.int)
      [] scalar.t = "TimestampType" -> append_timestamp(b, x.int)
      [] OTHER -> append_timestamp_ntz(b, x.int)

rebuild_array_elements(array, metadata, element_schema, b, start, i, offsets) ==
    IF b.err # "none" \/ Len(offsets) # i THEN b
    ELSE IF i >= Len(array) THEN finish_writing_array(b, start, offsets)
    ELSE rebuild_array_elements(array, metadata, element_schema,
             rebuild_impl(array[i + 1], metadata, element_schema, b),
             start, i + 1, Append(offsets, b.write_pos - start))

\* the fields of an object under reconstruction: st = [b, fields]
field_present(field_schema, field_value) ==
    \/ field_schema.typed_idx >= 0 /\ ~is_null_at(field_value, field_schema.typed_idx)
    \/ field_schema.variant_idx >= 0 /\ ~is_null_at(field_value, field_schema.variant_idx)

rebuild_object_field(metadata, st, start, object_field, field_value, ak) ==
    IF field_present(object_field.schema, field_value)
    THEN [b |-> rebuild_impl(field_value, metadata, object_field.schema, ak.b),
          fields |-> Append(st.fields,
                        FieldEntry(object_field.field_name, ak.id, st.b.write_pos - start))]
    ELSE st

rebuild_object_fields(object_row, metadata, object_schema, st, start, field_idx) ==
    IF st.b.err # "none" \/ field_idx >= Len(object_schema) THEN st
    ELSE IF object_row[field_idx + 1] = None
         THEN [st EXCEPT !.b.err = "malformed"]
    ELSE rebuild_object_fields(object_row, metadata, object_schema,
             rebuild_object_field(metadata, st, start, object_schema[field_idx + 1],
                 object_row[field_idx + 1][1],
                 add_key(st.b, object_schema[field_idx + 1].field_name)),
             start, field_idx + 1)

\* the leftover fields in the variant binary
rebuild_residual_field(v, schema, st, start, field, ak) ==
    IF field.err # "none" THEN [st EXCEPT !.b.err = field.err]
    ELSE IF in_object_schema_map(schema, field.key) THEN [st EXCEPT !.b.err = "malformed"]
    ELSE [b |-> append_variant(ak.b, [v EXCEPT !.pos = field.pos]),
          fields |-> Append(st.fields,
                        FieldEntry(field.key, ak.id, st.b.write_pos - start))]

rebuild_residual_fields(v, schema, st, start, size, i) ==
    IF st.b.err # "none" \/ i >= size THEN st
    ELSE rebuild_residual_fields(v, schema,
             rebuild_residual_field(v, schema, st, start, get_field_at_index(v, i),
                                    add_key(st.b, get_field_at_index(v, i).key)),
             start, size, i + 1)

rebuild_residual(v, schema, st, start, type) ==
    IF st.b.err # "none" THEN st
    ELSE IF v.err # "none" THEN [st EXCEPT !.b.err = v.err]
    ELSE IF type.err # "none" THEN [st EXCEPT !.b.err = type.err]
    ELSE IF type.val # "OBJECT" THEN [st EXCEPT !.b.err = "malformed"]
    ELSE IF object_size(v).err # "none" THEN [st EXCEPT !.b.err = object_size(v).err]
    ELSE rebuild_residual_fields(v, schema, st, start, object_size(v).val, 0)

rebuild_object_residual(row, metadata, schema, st, start) ==
    IF st.b.err = "none" /\ schema.variant_idx >= 0 /\ ~is_null_at(row, schema.variant_idx)
    THEN rebuild_residual(NewVariant(row_get(row, schema.variant_idx).bytes, metadata),
                          schema, st, start,
                          get_type(row_get(row, schema.variant_idx).bytes, 0))
    ELSE st

rebuild_object_finish(st, start) ==
    IF st.b.err # "none" THEN st.b ELSE finish_writing_object(st.b, start, st.fields)

rebuild_object(row, metadata, schema, b) ==
    rebuild_object_finish(
        rebuild_object_residual(row, metadata, schema,
            rebuild_object_fields(row_get(row, schema.typed_idx).values, metadata,
                                  schema.object_schema[1], [b |-> b, fields |-> <<>>],
                                  b.write_pos, 0),
            b.write_pos),
        b.write_pos)

rebuild_variant(b, v) == IF v.err # "none" THEN [b EXCEPT !.err = v.err] ELSE append_variant(b, v)

\* _rebuild that writes a null where the variant is missing
rebuild_impl_m(row, metadata, schema, b) ==
    IF b.err # "none" THEN b
    ELSE IF schema.typed_idx >= 0 /\ ~is_null_at(row, schema.typed_idx)
    THEN IF schema.scalar_schema # None
         THEN rebuild_scalar(b, schema.scalar_schema[1], row_get(row, schema.typed_idx).val)
         ELSE IF schema.array_schema # None
         THEN rebuild_array_elements(row_get(row, schema.typed_idx).array, metadata,
                                     schema.array_schema[1], b, b.write_pos, 0, <<>>)
         ELSE rebuild_object(row, metadata, schema, b)
    ELSE IF schema.variant_idx >= 0 /\ ~is_null_at(row, schema.variant_idx)
    THEN rebuild_variant(b, NewVariant(row_get(row, schema.variant_idx).bytes, metadata))
    ELSE append_null(b)

rebuild_impl(row, metadata, schema, b) ==
    IF b.err # "none" THEN b
    ELSE IF schema.typed_idx >= 0 /\ ~is_null_at(row, schema.typed_idx)
    THEN IF schema.scalar_schema # None
         THEN rebuild_scalar(b, schema.scalar_schema[1], row_get(row, schema.typed_idx).val)
         ELSE IF schema.array_schema # None
         THEN rebuild_array_elements(row_get(row, schema.typed_idx).array, metadata,
                                     schema.array_schema[1], b, b.write_pos, 0, <<>>)
         ELSE rebuild_object(row, metadata, schema, b)
    ELSE IF schema.variant_idx >= 0 /\ ~is_null_at(row, schema.variant_idx)
    THEN rebuild_variant(b, NewVariant(row_get(row, schema.variant_idx).bytes, metadata))
    ELSE [b EXCEPT !.err = "malformed"]

\* builder.result(), unless _rebuild raised
rebuild_result(b) == IF b.err # "none" THEN [NoVariant EXCEPT !.err = b.err] ELSE result(b)

rebuild_shredded(row, metadata, schema) ==
    rebuild_result(rebuild_impl(row, metadata, schema, NewBuilder(FALSE)))

rebuild(row, schema) ==
    IF schema.top_level_metadata_idx < 0 \/ is_null_at(row, schema.top_level_metadata_idx)
    THEN [NoVariant EXCEPT !.err = "malformed"]
    ELSE IF is_unshredded(schema)
    THEN IF is_null_at(row, schema.variant_idx) THEN [NoVariant EXCEPT !.err = "malformed"]
         ELSE NewVariant(row_get(row, schema.variant_idx).bytes,
                         row_get(row, schema.top_level_metadata_idx).bytes)
    ELSE rebuild_shredded(row, row_get(row, schema.top_level_metadata_idx).bytes, schema)

(***************************************************************************)
(* ShredSpec: a host shreds one Variant against one schema with            *)
(* cast_shredded, then hands rebuild a row: the row cast_shredded wrote,   *)
(* or that row with another binary in the value column of its root (a row  *)
(* that storage returns, not one cast_shredded wrote).  shred is           *)
(* [op, v, schema, allow, err, row, out].                                  *)
(***************************************************************************)
KeyA == <<97>>
KeyB == <<98>>
KeyC == <<99>>

\* a builder to which the host has added the keys "a", "b", "c"
ShredBuilder == add_key(add_key(add_key(NewBuilder(FALSE), KeyA).b, KeyB).b, KeyC).b
ShredMetadata == result(append_null(ShredBuilder)).metadata

ShredDocs ==
    { JInt(5), JInt(12), JInt(100), JInt(0), JInt(300), JInt(-1),
      JStr(<<104, 105>>), JNull, [t |-> "bool", b |-> TRUE],
      JArr(<<JInt(1), JStr(<<120>>), JNull>>),
      JArr(<<>>),
      JObj(<<Item(KeyA, JInt(1)), Item(KeyB, JStr(<<120>>)), Item(KeyC, JInt(3))>>),
      JObj(<<Item(KeyC, JStr(<<120>>)), Item(KeyA, JInt(300))>>),
      JObj(<<Item(KeyA, JInt(1))>>),
      JObj(<<Item(KeyC, JInt(1))>>),
      JObj(<<>>),
      JObj(<<Item(KeyB, JArr(<<JObj(<<Item(KeyA, JStr(<<120>>))>>), JInt(2)>>)),
             Item(KeyA, JObj(<<Item(KeyC, JNull), Item(KeyA, JInt(7))>>)),
             Item(KeyC, JStr(<<104, 105>>))>>) }

ShredDecimals ==
    { Dec(0, <<1, 5>>, -1),                  \* 1.5
      Dec(0, <<1, 2, 5, 0>>, -2),            \* 12.50
      Dec(0, <<1, 2, 5>>, 0),                \* 125
      Dec(0, <<1, 0, 0>>, 0),                \* 100
      Dec(0, <<3, 0>>, -1),                  \* 3.0
      Dec(0, <<0>>, -2),                     \* 0.00
      Dec(0, <<5>>, -2) }                    \* 0.05

\* object values whose id table names a key twice, children INT1 1, 2, 3:
\* {a, a}, {a, a, c}, {a, a, a}, {c, c}
DuplicateKeyValues ==
    { <<2, 2, 0, 0, 0, 2, 4, 12, 1, 12, 2>>,
      <<2, 3, 0, 0, 2, 0, 2, 4, 6, 12, 1, 12, 2, 12, 3>>,
      <<2, 3, 0, 0, 0, 0, 2, 4, 6, 12, 1, 12, 2, 12, 3>>,
      <<2, 2, 2, 2, 0, 2, 4, 12, 1, 12, 2>> }

ShredInputs ==
    {result(build_json(ShredBuilder, d)) : d \in ShredDocs}
      \cup {result(append_decimal(ShredBuilder, d)) : d \in ShredDecimals}
      \cup {NewVariant(value, ShredMetadata) : value \in DuplicateKeyValues}

\* a group below the root: columns value, typed_value
Group(scalar_schema, object_schema, array_schema) ==
    VariantSchema(1, 0, -1, 2, scalar_schema, object_schema, array_schema)
\* the root group: columns metadata, value, typed_value
Root(scalar_schema, object_schema, array_schema) ==
    VariantSchema(2, 1, 0, 3, scalar_schema, object_schema, array_schema)
Scalar(t) == Group(Some(t), None, None)

ShredScalarTypes ==
    {DecimalType(5, 2), DecimalType(5, 1), DecimalType(5, 0), DecimalType(3, 2),
     DecimalType(3, 0), DecimalType(2, 0), DecimalType(1, 0),
     IntegralType("BYTE"), IntegralType("LONG"),
     ScalarType("StringType"), ScalarType("BooleanType")}

ShredObjectSchemas ==
    { <<ObjectField(KeyA, Scalar(IntegralType("LONG")))>>,
      <<ObjectField(KeyA, Scalar(IntegralType("BYTE"))),
        ObjectField(KeyB, Scalar(ScalarType("StringType")))>>,
      <<ObjectField(KeyA, Scalar(IntegralType("LONG"))),
        ObjectField(KeyB, Scalar(IntegralType("LONG"))),
        ObjectField(KeyC, Scalar(IntegralType("LONG")))>>,
      <<ObjectField(KeyA, Group(None, Some(<<ObjectField(KeyA,
                                               Scalar(IntegralType("LONG")))>>), None)),
        ObjectField(KeyB, Group(None, None,
                                Some(Group(None, Some(<<ObjectField(KeyA,
                                               Scalar(ScalarType("StringType")))>>), None))))>> }

ShredSchemas ==
    {Root(Some(t), None, None) : t \in ShredScalarTypes}
      \cup {Root(None, Some(fields), None) : fields \in ShredObjectSchemas}
      \cup { Root(None, None, Some(Scalar(IntegralType("LONG")))),
             Root(None, None, None),
             VariantSchema(-1, 1, 0, 2, None, None, None) }

\* the binaries storage may hold in the value column of a shredded object:
\* the values of these documents, written against the keys a, b, c
StoredDocs ==
    { JInt(5), JArr(<<JInt(1)>>), JObj(<<>>),
      JObj(<<Item(KeyC, JInt(1))>>),
      JObj(<<Item(KeyA, JInt(1))>>),
      JObj(<<Item(KeyC, JInt(1)), Item(KeyB, JNull)>>) }
StoredValues == {result(build_json(ShredBuilder, d)).value : d \in StoredDocs}

ShredInit ==
    /\ builder = NewBuilder(FALSE)
    /\ frames = <<>>
    /\ appended = 0
    /\ last = NoLast
    /\ variant = [op |-> "none"]
    /\ sz = [op |-> "none"]
    /\ shred = [op |-> "none"]
    /\ step = 0

Shredded(v, schema, allow, r) ==
    [op |-> "cast_shredded", v |-> v, schema |-> schema, allow |-> allow,
     err |-> r.err, row |-> r.result, out |-> NoVariant]

CastShredded ==
    /\ shred.op = "none"
    /\ \E v \in ShredInputs, schema \in ShredSchemas, allow \in BOOLEAN :
           shred' = Shredded(v, schema, allow, cast_shredded(v, schema, allow))
    /\ UNCHANGED <<builder, frames, appended, last, variant, sz, step>>

\* rebuild on the row that cast_shredded wrote
Rebuild ==
    /\ shred.op = "cast_shredded" /\ shred.err = "none"
    /\ shred' = [shred EXCEPT !.op = "rebuild", !.out = rebuild(shred.row, shred.schema)]
    /\ UNCHANGED <<builder, frames, appended, last, variant, sz, step>>

\* rebuild on a row of a shredded object whose value column storage filled
RebuildStored ==
    /\ shred.op = "cast_shredded" /\ shred.err = "none"
    /\ shred.schema.object_schema # None
    /\ ~is_null_at(shred.row, shred.schema.typed_idx)
    /\ \E value \in StoredValues :
           LET row == add_variant_value(shred.row, shred.schema, value) IN
           shred' = [shred EXCEPT !.op = "rebuild_stored", !.row = row,
                                  !.out = rebuild(row, shred.schema)]
    /\ UNCHANGED <<builder, frames, appended, last, variant, sz, step>>

ShredNext ==
    \/ CastShredded
    \/ Rebuild
    \/ RebuildStored

ShredSpec == ShredInit /\ [][ShredNext]_vars

(***************************************************************************)
(* What the claims about shredding speak of.                               *)
(***************************************************************************)
ShredType == get_type(shred.v.value, shred.v.pos).val
ValueColumn(row, schema) == row_get(row, schema.variant_idx).bytes
TypedColumn(row, schema) == row_get(row, schema.typed_idx)
HasValue(row, schema) == ~is_null_at(row, schema.variant_idx)
HasTyped(row, schema) == ~is_null_at(row, schema.typed_idx)
SchemaKeys(schema) ==
    {schema.object_schema[1][i].field_name : i \in 1..Len(schema.object_schema[1])}

\* the fields of the object v: dictionary id, key and the bytes of the value
FieldAt(v, i) ==
    [id |-> get_dictionary_id_at_index(v, i).val,
     key |-> get_field_at_index(v, i).key,
     payload |-> get_value([v EXCEPT !.pos = get_field_at_index(v, i).pos]).val]
FieldIndexes(v) == 0..(object_size(v).val - 1)
FieldsOf(v) == {FieldAt(v, i) : i \in FieldIndexes(v)}

\* a Variant the builder can produce: no object of the inputs names a key twice
ValidInput == shred.v.value \notin DuplicateKeyValues

(***************************************************************************)
(* C12: for every valid Variant v and every valid shredding schema,        *)
(* cast_shredded succeeds and rebuild on the row it wrote returns a        *)
(* Variant whose to_json equals v's.                                       *)
(***************************************************************************)
C12_ShreddingRoundTrip ==
    /\ (shred.op = "cast_shredded" /\ ValidInput) => shred.err = "none"
    /\ (shred.op = "rebuild" /\ ValidInput) =>
           /\ shred.out.err = "none"
           /\ to_json(shred.out) = to_json(shred.v)

(***************************************************************************)
(* C13: when cast_shredded shreds an OBJECT against a node with an object  *)
(* schema, the residual given to add_variant_value is an object holding    *)
(* exactly the fields of v whose keys are not in object_schema, with their *)
(* dictionary ids and the bytes of their values unchanged; no key of       *)
(* object_schema is in it, and nothing is added when no field is left.     *)
(* Checked at the root and at the object-typed fields of the root.         *)
(***************************************************************************)
LeftOver(v, schema) == {f \in FieldsOf(v) : f.key \notin SchemaKeys(schema)}
LeftOverCount(v, schema) ==
    Cardinality({i \in FieldIndexes(v) : FieldAt(v, i).key \notin SchemaKeys(schema)})

ResidualExact(v, schema, row) ==
    IF HasValue(row, schema)
    THEN LET residual == NewVariant(ValueColumn(row, schema), v.metadata) IN
         /\ get_type(residual.value, 0).val = "OBJECT"
         /\ object_size(residual).val = LeftOverCount(v, schema)
         /\ FieldsOf(residual) = LeftOver(v, schema)
         /\ \A f \in FieldsOf(residual) : f.key \notin SchemaKeys(schema)
    ELSE LeftOverCount(v, schema) = 0

ShreddedAsObject(v, schema) ==
    get_type(v.value, v.pos).val = "OBJECT" /\ schema.object_schema # None

\* the fields of the root that are objects shredded against an object schema
NestedObjects ==
    {i \in FieldIndexes(shred.v) :
        /\ object_schema_map_get(shred.schema, FieldAt(shred.v, i).key) >= 0
        /\ ShreddedAsObject(
               [shred.v EXCEPT !.pos = get_field_at_index(shred.v, i).pos],
               shred.schema.object_schema[1][
                   object_schema_map_get(shred.schema, FieldAt(shred.v, i).key) + 1].schema)}

NestedResidualExact(i) ==
    LET field_idx == object_schema_map_get(shred.schema, FieldAt(shred.v, i).key) + 1 IN
    ResidualExact([shred.v EXCEPT !.pos = get_field_at_index(shred.v, i).pos],
                  shred.schema.object_schema[1][field_idx].schema,
                  TypedColumn(shred.row, shred.schema).values[field_idx][1])

C13_ResidualExcludesSchemaKeys ==
    (shred.op = "cast_shredded" /\ shred.err = "none"
       /\ ShreddedAsObject(shred.v, shred.schema)) =>
        /\ ResidualExact(shred.v, shred.schema, shred.row)
        /\ \A i \in NestedObjects : NestedResidualExact(i)

C13_Witness ==
    /\ shred.op = "cast_shredded" /\ shred.err = "none"
    /\ ShreddedAsObject(shred.v, shred.schema)
    /\ HasValue(shred.row, shred.schema)
    /\ LeftOverCount(shred.v, shred.schema) \in 1..(object_size(shred.v).val - 1)
    /\ NestedObjects # {}

(***************************************************************************)
(* C14: when rebuild reconstructs an object node whose value column is     *)
(* non-null, it fails with malformed if that residual is not an OBJECT or  *)
(* if a field of it has a key of the node's object schema; no Variant is   *)
(* returned for such a row.                                                *)
(***************************************************************************)
RebuildsObject ==
    /\ shred.op \in {"rebuild", "rebuild_stored"}
    /\ shred.schema.object_schema # None
    /\ HasTyped(shred.row, shred.schema)
    /\ HasValue(shred.row, shred.schema)

StoredResidual == NewVariant(ValueColumn(shred.row, shred.schema), shred.v.metadata)
ResidualNotObject == get_type(StoredResidual.value, 0).val # "OBJECT"
ResidualHasSchemaKey ==
    /\ ~ResidualNotObject
    /\ \E f \in FieldsOf(StoredResidual) : f.key \in SchemaKeys(shred.schema)

C14_BadResidualIsMalformed ==
    (RebuildsObject /\ (ResidualNotObject \/ ResidualHasSchemaKey)) =>
        shred.out.err = "malformed"

C14_Witness ==
    /\ RebuildsObject
    /\ ResidualHasSchemaKey
    /\ \E f \in FieldsOf(StoredResidual) : f.key \notin SchemaKeys(shred.schema)
    /\ shred.out.err = "malformed"

(***************************************************************************)
(* C15: cast_shredded fails with malformed whenever the input object has   *)
(* two fields with the same key and that key is in object_schema, whatever *)
(* the length of object_schema and the number of schema fields absent from *)
(* the object; when it does not fail, every slot of the list given to      *)
(* add_object holds a result.                                              *)
(***************************************************************************)
HasDuplicateSchemaKey ==
    \E i, j \in FieldIndexes(shred.v) :
        /\ i # j
        /\ FieldAt(shred.v, i).key = FieldAt(shred.v, j).key
        /\ FieldAt(shred.v, i).key \in SchemaKeys(shred.schema)

C15_DuplicateKeyIsMalformed ==
    (shred.op = "cast_shredded" /\ ShreddedAsObject(shred.v, shred.schema)) =>
        /\ HasDuplicateSchemaKey => shred.err = "malformed"
        /\ shred.err = "none" =>
               \A i \in 1..Len(shred.schema.object_schema[1]) :
                   TypedColumn(shred.row, shred.schema).values[i] # None

(***************************************************************************)
(* C16: with allow_numeric_scale_changes() true, shredding a LONG x        *)
(* against Decimal{p,s} raises no error; add_scalar gets a decimal         *)
(* numerically equal to x when x written at scale s has at most p digits,  *)
(* and otherwise add_variant_value gets the bytes of the value.            *)
(***************************************************************************)
LongToDecimal ==
    /\ shred.op = "cast_shredded" /\ shred.allow
    /\ ShredType = "LONG"
    /\ shred.schema.scalar_schema # None
    /\ shred.schema.scalar_schema[1].t = "DecimalType"

TargetType == shred.schema.scalar_schema[1]
LongValue == get_long(shred.v.value, shred.v.pos).val
\* the digits of x * 10^s
DigitsAtScale(x, s) == IF IsZero(x) THEN 1 ELSE Len(MagDigits(Abs(x))) + s

C16_LongToDecimal ==
    LongToDecimal =>
        /\ shred.err = "none"
        /\ IF DigitsAtScale(LongValue, TargetType.scale) <= TargetType.precision
           THEN /\ HasTyped(shred.row, shred.schema)
                /\ TypedColumn(shred.row, shred.schema).k = "scalar"
                /\ NumEq(TypedColumn(shred.row, shred.schema).val.dec,
                         decimal_from_int(LongValue))
           ELSE /\ ~HasTyped(shred.row, shred.schema)
                /\ HasValue(shred.row, shred.schema)
                /\ ValueColumn(shred.row, shred.schema) = get_value(shred.v).val

(***************************************************************************)
(* C17: whenever cast_shredded stores a DECIMAL as a typed scalar for      *)
(* Decimal{p,s}, the stored decimal is numerically equal to the original,  *)
(* has scale exactly s and at most p significant digits; with scale        *)
(* changes disallowed this happens only when the on-wire scale is s.       *)
(***************************************************************************)
DecimalToDecimal ==
    /\ shred.op = "cast_shredded" /\ shred.err = "none"
    /\ ShredType = "DECIMAL"
    /\ shred.schema.scalar_schema # None
    /\ shred.schema.scalar_schema[1].t = "DecimalType"

\* the decimal on the wire: the unscaled integer of the payload at the scale
\* of the scale byte
ShredWireScale == shred.v.value[shred.v.pos + 2]
ShredWireUnscaled ==
    SignExtend(Slice(shred.v.value, shred.v.pos + 2,
                     Len(shred.v.value) - shred.v.pos - 2))
ShredWireDecimal ==
    LET m == decimal_from_int(ShredWireUnscaled) IN Dec(m.sign, m.digits, 0 - ShredWireScale)
StoredDecimal == TypedColumn(shred.row, shred.schema).val.dec

C17_TypedDecimalIsExact ==
    (DecimalToDecimal /\ HasTyped(shred.row, shred.schema)) =>
        /\ NumEq(StoredDecimal, ShredWireDecimal)
        /\ StoredDecimal.exp = 0 - TargetType.scale
        /\ Len(StoredDecimal.digits) <= TargetType.precision
        /\ ~shred.allow => ShredWireScale = TargetType.scale

(***************************************************************************)
(* C18: with allow_numeric_scale_changes() true, a non-zero DECIMAL whose  *)
(* on-wire scale differs from s, which can be written at scale s without   *)
(* losing digits and then has at most p digits, is stored as a typed       *)
(* scalar (the rescaled value), not in the untyped residual.               *)
(***************************************************************************)
\* the digits of the wire decimal written at scale s, <<>> when digits are lost
RescaledDigits(d, s) ==
    IF s >= 0 - d.exp THEN d.digits \o Rep(0, s + d.exp)
    ELSE IF Len(d.digits) > 0 - d.exp - s
            /\ AllZeroDigits(SubSeq(d.digits, Len(d.digits) + d.exp + s + 1, Len(d.digits)))
         THEN SubSeq(d.digits, 1, Len(d.digits) + d.exp + s)
    ELSE <<>>

C18_LosslessRescaleIsTyped ==
    (/\ shred.op = "cast_shredded" /\ shred.allow
     /\ ShredType = "DECIMAL"
     /\ shred.schema.scalar_schema # None
     /\ shred.schema.scalar_schema[1].t = "DecimalType"
     /\ ~IsZero(ShredWireUnscaled)
     /\ ShredWireScale # TargetType.scale
     /\ RescaledDigits(ShredWireDecimal, TargetType.scale) # <<>>
     /\ Len(RescaledDigits(ShredWireDecimal, TargetType.scale)) <= TargetType.precision) =>
        /\ shred.err = "none"
        /\ HasTyped(shred.row, shred.schema)
        /\ NumEq(StoredDecimal, ShredWireDecimal)
        /\ StoredDecimal.exp = 0 - TargetType.scale

(***************************************************************************)
(* C19: across any sequence of builder operations add_key(k) returns the   *)
(* same id for k on every call; the first call for a new key returns the   *)
(* number of keys so far, so ids are 0, 1, 2, ... in the order of first    *)
(* insertion; dictionary_keys[id] = k for every id handed out (those the   *)
(* open containers recorded included), the keys of dictionary_keys are     *)
(* pairwise distinct, and no id is ever reassigned or removed.             *)
(***************************************************************************)
DistinctKeys(b) ==
    \A i, j \in 1..Len(b.dictionary_keys) :
        b.dictionary_keys[i] = b.dictionary_keys[j] => i = j

\* what add_key(k) does on the builder b
AddKeyContract(b, k) ==
    LET ak == add_key(b, k) IN
    /\ ak.id \in 0..Len(b.dictionary_keys)
    /\ (ak.id = Len(b.dictionary_keys)) =
           (\A i \in 1..Len(b.dictionary_keys) : b.dictionary_keys[i] # k)
    /\ ak.b.dictionary_keys[ak.id + 1] = k
    /\ SubSeq(ak.b.dictionary_keys, 1, Len(b.dictionary_keys)) = b.dictionary_keys
    /\ Len(ak.b.dictionary_keys) =
           IF ak.id = Len(b.dictionary_keys) THEN Len(b.dictionary_keys) + 1
           ELSE Len(b.dictionary_keys)
    /\ add_key(ak.b, k) = [b |-> ak.b, id |-> ak.id]

RecordedIdsResolve ==
    \A f \in 1..Len(frames) : \A i \in 1..Len(frames[f].fields) :
        /\ frames[f].fields[i].id < Len(builder.dictionary_keys)
        /\ builder.dictionary_keys[frames[f].fields[i].id + 1] = frames[f].fields[i].key

KeysOnlyAppended ==
    /\ Len(builder.dictionary_keys) <= Len(builder'.dictionary_keys)
    /\ SubSeq(builder'.dictionary_keys, 1, Len(builder.dictionary_keys))
           = builder.dictionary_keys

C19_StableKeyIds ==
    /\ [](/\ DistinctKeys(builder)
          /\ \A k \in Keys : AddKeyContract(builder, k)
          /\ RecordedIdsResolve)
    /\ [][KeysOnlyAppended]_vars

C19_Witness ==
    /\ Len(builder.dictionary_keys) >= 2
    /\ \E f \in 1..Len(frames) : \E i, j \in 1..Len(frames[f].fields) :
           /\ i < j
           /\ frames[f].fields[i].key = frames[f].fields[j].key
           /\ frames[f].fields[i].id = frames[f].fields[j].id
           /\ frames[f].fields[i].id >= 1

(***************************************************************************)
(* KeySpec: a client adds keys to the dictionary of a fresh builder,       *)
(* appends a null as the value, and calls result().  The keys include      *)
(* strings of two-byte characters whose UTF-8 length passes 255 while      *)
(* their length in characters does not.                                    *)
(***************************************************************************)
DictKeys ==
    {<<97>>, <<98, 99>>, <<233>>, Rep(233, 127), Rep(233, 128), Rep(100, 200)}

KeyInit ==
    /\ builder = NewBuilder(FALSE)
    /\ frames = <<>>
    /\ appended = 0
    /\ last = NoLast
    /\ variant = [op |-> "none"]
    /\ sz = [op |-> "none"]
    /\ shred = [op |-> "none"]
    /\ step = 0

AddKey(key) ==
    /\ variant.op = "none"
    /\ Len(builder.dictionary_keys) < MaxDictKeys
    /\ builder' = add_key(builder, key).b
    /\ last' = [op |-> "add_key", key |-> key, id |-> add_key(builder, key).id]
    /\ UNCHANGED <<frames, appended, variant, sz, shred, step>>

AppendNull ==
    /\ variant.op = "none"
    /\ builder.write_pos = 0
    /\ builder' = append_null(builder)
    /\ last' = [op |-> "append_null"]
    /\ UNCHANGED <<frames, appended, variant, sz, shred, step>>

KeyResult ==
    /\ variant.op = "none"
    /\ builder.write_pos > 0
    /\ variant' = [op |-> "result", v |-> result(builder)]
    /\ UNCHANGED <<builder, frames, appended, last, sz, shred, step>>

KeyNext ==
    \/ \E key \in DictKeys : AddKey(key)
    \/ AppendNull
    \/ KeyResult

KeySpec == KeyInit /\ [][KeyNext]_vars

(***************************************************************************)
(* C20: result() writes metadata in which offset_size is the least width   *)
(* that holds max(total UTF-8 byte length of the keys, number of keys);    *)
(* the dictionary size and every offset are stored whole in offset_size    *)
(* bytes, the last offset is the byte length of the string region, and     *)
(* get_metadata_key(metadata, id) is the key add_key gave id, for every    *)
(* key set, keys with multi-byte characters included.                      *)
(***************************************************************************)
RECURSIVE ByteLen(_)
ByteLen(keys) ==
    IF keys = <<>> THEN 0 ELSE Len(utf8_encode(keys[1])) + ByteLen(Tail(keys))

MinWidth(n) == IF n <= U8_MAX THEN 1 ELSE IF n <= U16_MAX THEN 2 ELSE IF n <= U24_MAX THEN 3 ELSE 4

MetadataOffset(metadata, offset_size, i) ==
    read_unsigned(metadata, 1 + (i + 1) * offset_size, offset_size).val

C20_MetadataHoldsKeys ==
    (variant.op = "result") =>
        LET keys == builder.dictionary_keys
            metadata == variant.v.metadata
            offset_size == ((metadata[1] \div 64) % 4) + 1
        IN /\ variant.v.err = "none"
           /\ offset_size = MinWidth(IF ByteLen(keys) > Len(keys) THEN ByteLen(keys)
                                     ELSE Len(keys))
           /\ read_unsigned(metadata, 1, offset_size).val = Len(keys)
           /\ \A i \in 0..Len(keys) :
                  MetadataOffset(metadata, offset_size, i) = ByteLen(SubSeq(keys, 1, i))
           /\ Len(metadata) = 1 + (Len(keys) + 2) * offset_size + ByteLen(keys)
           /\ \A id \in 0..(Len(keys) - 1) :
                  get_metadata_key(metadata, id) = [err |-> "none", val |-> keys[id + 1]]

(***************************************************************************)
(* ReaderSpec: a reader is handed bytes that no builder of this module     *)
(* wrote (truncated, with sizes and offsets that point anywhere) and       *)
(* applies one operation to them.  last holds the operation, its           *)
(* arguments and what it gave.                                             *)
(***************************************************************************)
ReadBytes == {0, 127, 128, 255}
ReadBuffers == UNION {[1..n -> ReadBytes] : n \in 1..MaxReadLen}

ReaderInit ==
    /\ builder = NewBuilder(FALSE)
    /\ frames = <<>>
    /\ appended = 0
    /\ last = NoLast
    /\ variant = [op |-> "none"]
    /\ sz = [op |-> "none"]
    /\ shred = [op |-> "none"]
    /\ step = 0

ReadUnsigned(bytes_array, pos, num_bytes) ==
    /\ last.op = "none"
    /\ last' = [op |-> "read_unsigned", bytes_array |-> bytes_array, pos |-> pos,
                num_bytes |-> num_bytes,
                r |-> read_unsigned(bytes_array, pos, num_bytes)]
    /\ UNCHANGED <<builder, frames, appended, variant, sz, shred, step>>

\* whole values of every type, two payload bytes in the strings and binaries,
\* one child in the containers
Payload(n) == [i \in 1..n |-> i]
WholeValues ==
    {<<primitive_header(NULL)>>, <<primitive_header(T_TRUE)>>,
     <<primitive_header(INT1)>> \o Payload(1), <<primitive_header(INT2)>> \o Payload(2),
     <<primitive_header(INT4)>> \o Payload(4), <<primitive_header(INT8)>> \o Payload(8),
     <<primitive_header(DATE)>> \o Payload(4), <<primitive_header(TIMESTAMP)>> \o Payload(8),
     <<primitive_header(TIMESTAMP_NTZ)>> \o Payload(8),
     <<primitive_header(DOUBLE)>> \o Payload(8), <<primitive_header(FLOAT)>> \o Payload(4),
     <<primitive_header(DECIMAL4), 1>> \o Payload(4),
     <<primitive_header(DECIMAL8), 1>> \o Payload(8),
     <<primitive_header(DECIMAL16), 1>> \o Payload(16),
     <<primitive_header(UUID)>> \o Payload(16),
     <<primitive_header(BINARY), 2, 0, 0, 0, 7, 8>>,
     <<primitive_header(LONG_STR), 2, 0, 0, 0, 104, 105>>,
     <<primitive_header(LONG_STR), 0, 0, 0, 128>>,
     <<short_str_header(2), 104, 105>>,
     <<array_header(FALSE, 1), 1, 0, 1, primitive_header(NULL)>>,
     <<array_header(TRUE, 2), 1, 0, 0, 0, 0, 0, 1, 0, primitive_header(NULL)>>,
     <<object_header(FALSE, 1, 1), 1, 0, 0, 1, primitive_header(NULL)>>,
     <<object_header(TRUE, 2, 2), 1, 0, 0, 0, 0, 0, 0, 0, 1, 0, primitive_header(NULL)>>}

\* every value cut short at every length, at position 0 or behind one byte
ReadValues ==
    UNION {{SubSeq(w, 1, n) : n \in 1..Len(w)} \cup
           {<<primitive_header(NULL)>> \o SubSeq(w, 1, n) : n \in 1..Len(w)} : w \in WholeValues}

Read(op, value, pos, r) == [op |-> op, value |-> value, pos |-> pos, r |-> r]

GetLong(value, pos) ==
    /\ last.op = "none"
    /\ last' = Read("get_long", value, pos, get_long(value, pos))
    /\ UNCHANGED <<builder, frames, appended, variant, sz, shred, step>>

GetDouble(value, pos) ==
    /\ last.op = "none"
    /\ last' = Read("get_double", value, pos, get_double(value, pos))
    /\ UNCHANGED <<builder, frames, appended, variant, sz, shred, step>>

GetFloat(value, pos) ==
    /\ last.op = "none"
    /\ last' = Read("get_float", value, pos, get_float(value, pos))
    /\ UNCHANGED <<builder, frames, appended, variant, sz, shred, step>>

GetDecimal(value, pos) ==
    /\ last.op = "none"
    /\ last' = Read("get_decimal", value, pos, get_decimal(value, pos))
    /\ UNCHANGED <<builder, frames, appended, variant, sz, shred, step>>

GetString(value, pos) ==
    /\ last.op = "none"
    /\ last' = Read("get_string", value, pos, get_string(value, pos))
    /\ UNCHANGED <<builder, frames, appended, variant, sz, shred, step>>

GetBinary(value, pos) ==
    /\ last.op = "none"
    /\ last' = Read("get_binary", value, pos, get_binary(value, pos))
    /\ UNCHANGED <<builder, frames, appended, variant, sz, shred, step>>

GetUuid(value, pos) ==
    /\ last.op = "none"
    /\ last' = Read("get_uuid", value, pos, get_uuid(value, pos))
    /\ UNCHANGED <<builder, frames, appended, variant, sz, shred, step>>

ValueSize(value, pos) ==
    /\ last.op = "none"
    /\ last' = Read("value_size", value, pos, value_size(value, pos))
    /\ UNCHANGED <<builder, frames, appended, variant, sz, shred, step>>

HandleObject(value, pos) ==
    /\ last.op = "none"
    /\ last' = Read("handle_object", value, pos, handle_object(value, pos))
    /\ UNCHANGED <<builder, frames, appended, variant, sz, shred, step>>

HandleArray(value, pos) ==
    /\ last.op = "none"
    /\ last' = Read("handle_array", value, pos, handle_array(value, pos))
    /\ UNCHANGED <<builder, frames, appended, variant, sz, shred, step>>

ReaderNext ==
    \/ \E bytes_array \in ReadBuffers, pos \in 0..MaxReadLen, num_bytes \in 1..4 :
           ReadUnsigned(bytes_array, pos, num_bytes)
    \/ \E value \in ReadValues, pos \in 0..1 :
           \/ GetLong(value, pos)
           \/ GetDouble(value, pos)
           \/ GetFloat(value, pos)
           \/ GetDecimal(value, pos)
           \/ GetString(value, pos)
           \/ GetBinary(value, pos)
           \/ GetUuid(value, pos)
           \/ ValueSize(value, pos)
           \/ HandleObject(value, pos)
           \/ HandleArray(value, pos)

ReaderSpec == ReaderInit /\ [][ReaderNext]_vars

(***************************************************************************)
(* C21: read_unsigned(buf, pos, n), n in 1..4, gives the unsigned          *)
(* little-endian value of the n bytes, except that a 4-byte read whose top *)
(* bit is set fails with malformed; no decoded value is 2^31 or more.      *)
(***************************************************************************)
TopBitSet(bytes_array, pos, num_bytes) ==
    num_bytes = 4 /\ bytes_array[pos + 4] >= 128

C21_ReadUnsigned ==
    (last.op = "read_unsigned" /\ last.pos + last.num_bytes <= Len(last.bytes_array)) =>
        IF TopBitSet(last.bytes_array, last.pos, last.num_bytes)
        THEN last.r.err = "malformed"
        ELSE /\ last.r.err = "none"
             /\ FromInt(last.r.val) = read_unsigned_int(last.bytes_array, last.pos,
                                                        last.num_bytes)

(***************************************************************************)
(* C22: a reader operation on a value buffer that needs a byte at an index *)
(* outside the buffer fails with malformed: no other error kind, and no    *)
(* result computed from fewer bytes than the payload of the type.          *)
(***************************************************************************)
\* the bytes a length-prefixed value needs: the prefix, then as many as it says
PrefixedBytes(value, pos) ==
    IF pos + 1 + U32_SIZE > Len(value) THEN 1 + U32_SIZE
    ELSE 1 + U32_SIZE + unsigned_value(Slice(value, pos + 1, U32_SIZE))

\* the bytes of a container header: the size, then the ids and the offsets
HeaderBytes(value, pos, size_bytes, id_size, offset_size) ==
    IF pos + 1 + size_bytes > Len(value) THEN 1 + size_bytes
    ELSE 1 + size_bytes
           + unsigned_value(Slice(value, pos + 1, size_bytes)) * id_size
           + (unsigned_value(Slice(value, pos + 1, size_bytes)) + 1) * offset_size

ObjectSizeBytes(type_info) == IF (type_info \div 16) % 2 # 0 THEN U32_SIZE ELSE 1
ArraySizeBytes(type_info) == IF (type_info \div 4) % 2 # 0 THEN U32_SIZE ELSE 1

\* the number of bytes from pos that op reads when the value at pos has a
\* type that op accepts; 0 when op does not accept the type
NeededBytes(op, value, pos) ==
    IF pos >= Len(value) THEN 1
    ELSE LET b == basic_type_of(value, pos)
             t == get_type_info(value, pos)
             prim == b = PRIMITIVE
         IN CASE op = "get_long" ->
                  IF prim /\ t = INT1 THEN 2
                  ELSE IF prim /\ t = INT2 THEN 3
                  ELSE IF prim /\ t \in {INT4, DATE} THEN 5
                  ELSE IF prim /\ t \in {INT8, TIMESTAMP, TIMESTAMP_NTZ} THEN 9
                  ELSE 0
              [] op = "get_double" -> IF prim /\ t = DOUBLE THEN 9 ELSE 0
              [] op = "get_float" -> IF prim /\ t = FLOAT THEN 5 ELSE 0
              [] op = "get_uuid" -> IF prim /\ t = UUID THEN 17 ELSE 0
              [] op = "get_decimal" ->
                  IF prim /\ t = DECIMAL4 THEN 6
                  ELSE IF prim /\ t = DECIMAL8 THEN 10
                  ELSE IF prim /\ t = DECIMAL16 THEN 18
                  ELSE 0
              [] op = "get_string" ->
                  IF b = SHORT_STR THEN 1 + t
                  ELSE IF prim /\ t = LONG_STR THEN PrefixedBytes(value, pos)
                  ELSE 0
              [] op = "get_binary" ->
                  IF prim /\ t = BINARY THEN PrefixedBytes(value, pos) ELSE 0
              [] op = "handle_object" -> IF b = OBJECT THEN 1 + ObjectSizeBytes(t) ELSE 0
              [] op = "handle_array" -> IF b = ARRAY THEN 1 + ArraySizeBytes(t) ELSE 0
              [] op = "value_size" ->
                  IF b = OBJECT
                  THEN HeaderBytes(value, pos, ObjectSizeBytes(t), ((t \div 4) % 4) + 1,
                                   (t % 4) + 1)
                  ELSE IF b = ARRAY
                  THEN HeaderBytes(value, pos, ArraySizeBytes(t), 0, (t % 4) + 1)
                  ELSE IF prim /\ t \in {BINARY, LONG_STR} THEN 1 + U32_SIZE
                  ELSE 1
              [] OTHER -> 0

ReaderOps ==
    {"get_long", "get_double", "get_float", "get_decimal", "get_string", "get_binary",
     "get_uuid", "value_size", "handle_object", "handle_array"}

C22_OutOfBoundsIsMalformed ==
    (/\ last.op \in ReaderOps
     /\ last.pos + NeededBytes(last.op, last.value, last.pos) > Len(last.value)) =>
        last.r.err = "malformed"

(***************************************************************************)
(* The Variant constructor over buffers of any length (variant.py).  The   *)
(* buffers are held by their lengths and the first metadata byte, the only *)
(* things __init__ looks at; last is the Variant under construction and    *)
(* err = "none" says it exists.  get_field_at_index and                    *)
(* get_element_at_index are taken on the path that reaches their           *)
(* constructor call Variant(self.value, self.metadata, data_start +        *)
(* offset).                                                                *)
(***************************************************************************)
BufferLengths == {0, 1, 2, SIZE_LIMIT - 1, SIZE_LIMIT, SIZE_LIMIT + 1}
MetadataHeaders == {0, 1, 2, 17, 129, 255}
ChildPositions == {1, 3}

CtorInit == KeyInit

Constructed(op, value_len, metadata_len, header, pos, depth) ==
    [op |-> op, value_len |-> value_len, metadata_len |-> metadata_len,
     header |-> header, pos |-> pos, depth |-> depth,
     err |-> variant_init_check(value_len, metadata_len, header)]

NewVariantOver(value_len, metadata_len, header) ==
    /\ last.op = "none"
    /\ metadata_len = 0 => header = 0
    /\ last' = Constructed("Variant", value_len, metadata_len, header, 0, 0)
    /\ UNCHANGED <<builder, frames, appended, variant, sz, shred, step>>

GetFieldAtIndex(pos) ==
    /\ last.op # "none" /\ last.err = "none" /\ last.depth < MaxDepth
    /\ last' = Constructed("get_field_at_index", last.value_len, last.metadata_len,
                           last.header, last.pos + pos, last.depth + 1)
    /\ UNCHANGED <<builder, frames, appended, variant, sz, shred, step>>

GetElementAtIndex(pos) ==
    /\ last.op # "none" /\ last.err = "none" /\ last.depth < MaxDepth
    /\ last' = Constructed("get_element_at_index", last.value_len, last.metadata_len,
                           last.header, last.pos + pos, last.depth + 1)
    /\ UNCHANGED <<builder, frames, appended, variant, sz, shred, step>>

CtorNext ==
    \/ \E value_len \in BufferLengths, metadata_len \in BufferLengths,
          header \in MetadataHeaders : NewVariantOver(value_len, metadata_len, header)
    \/ \E pos \in ChildPositions : GetFieldAtIndex(pos)
    \/ \E pos \in ChildPositions : GetElementAtIndex(pos)

CtorSpec == CtorInit /\ [][CtorNext]_vars

(***************************************************************************)
(* C23: constructing a Variant over metadata that is empty or whose first  *)
(* byte has low 4 bits other than 1 fails with malformed (this check comes *)
(* first); over version 1 metadata, a value or a metadata longer than 2^24 *)
(* bytes fails with the constructor's size-limit error; so every Variant   *)
(* that exists, the sub-Variants returned by field and element lookup      *)
(* included, has version 1 metadata and both buffers at most 2^24 bytes.   *)
(***************************************************************************)
BadVersion(v) == v.metadata_len = 0 \/ v.header % 16 # 1
TooLong(v) == v.value_len > 16777216 \/ v.metadata_len > 16777216
CommitMetadata == <<1, 2, 0, 1, 2, 97, 98>>

\* 1, {a: 1, b: 2}, [1, 2], [{a: 1}], a cut INT1, an offset table that is
\* cut, {a: 1, a: 2}, [1, <element past the end>], {a: 1, <id 5>: 2},
\* {a: 1, b: <cut INT2>}, [[1], {a: 1, a: 2}], [1, <unknown primitive>]
CommitValues ==
    { <<12, 1>>,
      <<2, 2, 0, 1, 0, 2, 4, 12, 1, 12, 2>>,
      <<3, 2, 0, 2, 4, 12, 1, 12, 2>>,
      <<3, 1, 0, 7, 2, 1, 0, 0, 2, 12, 1>>,
      <<12>>,
      <<3, 2, 0>>,
      <<2, 2, 0, 0, 0, 2, 4, 12, 1, 12, 2>>,
      <<3, 2, 0, 2, 4, 12, 1>>,
      <<2, 2, 0, 5, 0, 2, 4, 12, 1, 12, 2>>,
      <<2, 2, 0, 1, 0, 2, 4, 12, 1, 16, 2>>,
      <<3, 2, 0, 6, 17, 3, 1, 0, 2, 12, 1, 2, 2, 0, 0, 0, 2, 4, 12, 1, 12, 2>>,
      <<3, 2, 0, 2, 4, 12, 1, 124, 2>> }

CommitDocs ==
    { JInt(1), JStr(<<98>>), JArr(<<JInt(1), JNull>>),
      JObj(<<Item(<<98>>, JInt(1))>>),
      JObj(<<Item(<<99>>, JArr(<<>>)), Item(<<97>>, JNull)>>) }

CommitInit ==
    /\ builder \in {NewBuilder(dup) : dup \in BOOLEAN}
    /\ frames = <<>>
    /\ appended = 0
    /\ last = NoLast
    /\ variant = [op |-> "none"]
    /\ sz = [op |-> "none"]
    /\ shred = [op |-> "none"]
    /\ step = 0

CommitBuildJson(doc) ==
    /\ last.op = "none"
    /\ builder' = build_json(builder, doc)
    /\ last' = [op |-> "build_json", doc |-> doc, before |-> builder]
    /\ UNCHANGED <<frames, appended, variant, sz, shred, step>>

CommitAppendVariant(value) ==
    /\ last.op \in {"none", "build_json"} /\ builder.err = "none"
    /\ builder' = append_variant(builder, [NewVariant(value, CommitMetadata) EXCEPT !.pos = 0])
    /\ last' = [op |-> "append_variant", value |-> value, before |-> builder]
    /\ UNCHANGED <<frames, appended, variant, sz, shred, step>>

CommitNext ==
    \/ \E doc \in CommitDocs : CommitBuildJson(doc)
    \/ \E value \in CommitValues : CommitAppendVariant(value)

CommitSpec == CommitInit /\ [][CommitNext]_vars

(***************************************************************************)
(* C24: when a builder operation raises, the builder has committed nothing *)
(* of it: write_pos, the buffer bytes below write_pos and the dictionary   *)
(* are as they were when the operation started, also when the operation is *)
(* a nested append_variant or build_json that had written children or      *)
(* added keys before it failed.                                            *)
(***************************************************************************)
Committed(b) ==
    [write_pos |-> b.write_pos, bytes |-> SubSeq(b.write_buffer, 1, b.write_pos),
     dictionary_keys |-> b.dictionary_keys]
C24_NothingCommitted ==
    (last.op \in {"build_json", "append_variant"} /\ builder.err # "none") =>
        Committed(builder) = Committed(last.before)

(***************************************************************************)
(* RebuildSpec: rebuild on the rows storage may return, whatever wrote     *)
(* them: each column null or filled, under a scalar, an array and an       *)
(* object schema, under an unshredded schema, under a schema without a     *)
(* metadata column and under one without a value column.  The value column *)
(* holds the INT1 5, an INT1 cut after its header, or the object {c: 1}.   *)
(***************************************************************************)
Row(cols) == [cols |-> cols]
Binary(bytes) == Some([k |-> "binary", bytes |-> bytes])
TypedLong == Some([k |-> "scalar", val |-> PyInt(FromInt(7))])
TypedArray(array) == Some([k |-> "array", array |-> array])
TypedObject(values) == Some([k |-> "object", values |-> values])

LongSchema == Some(IntegralType("LONG"))
ObjectABSchema ==
    Some(<<ObjectField(KeyA, Scalar(IntegralType("LONG"))),
           ObjectField(KeyB, Scalar(IntegralType("LONG")))>>)

MetadataColumns == {None, Binary(ShredMetadata)}
ValueColumns == {None, Binary(<<12, 5>>), Binary(<<12>>)}
ObjectValueColumns == {None, Binary(<<12, 5>>), Binary(<<2, 1, 2, 0, 2, 12, 1>>)}
\* the rows of a group below the root: columns value, typed_value
GroupRows == {Row(<<value, typed>>) : value \in {None, Binary(<<12, 5>>)}, typed \in {None, TypedLong}}
ArrayColumns ==
    {None, TypedArray(<<>>)}
      \cup {TypedArray(<<e>>) : e \in GroupRows}
      \cup {TypedArray(<<e1, e2>>) : e1 \in GroupRows, e2 \in GroupRows}
ObjectColumns ==
    {None} \cup {TypedObject(<<f1, f2>>) : f1 \in {None} \cup {Some(r) : r \in GroupRows},
                                            f2 \in {None} \cup {Some(r) : r \in GroupRows}}

RebuildInput(row, schema) == [row |-> row, schema |-> schema]
RebuildInputs ==
    {RebuildInput(Row(<<m, value, typed>>), schema) :
        m \in MetadataColumns, value \in ValueColumns, typed \in {None, TypedLong},
        schema \in {Root(LongSchema, None, None),
                    VariantSchema(2, 1, -1, 3, LongSchema, None, None)}}
      \cup {RebuildInput(Row(<<m, value, typed>>), Root(None, None, Some(Scalar(IntegralType("LONG"))))) :
                m \in MetadataColumns, value \in ValueColumns, typed \in ArrayColumns}
      \cup {RebuildInput(Row(<<Binary(ShredMetadata), value, typed>>), Root(None, ObjectABSchema, None)) :
                value \in ObjectValueColumns, typed \in ObjectColumns}
      \cup {RebuildInput(Row(<<m, value>>), VariantSchema(-1, 1, 0, 2, None, None, None)) :
                m \in MetadataColumns, value \in ValueColumns}
      \cup {RebuildInput(Row(<<m, typed>>), VariantSchema(1, -1, 0, 2, LongSchema, None, None)) :
                m \in MetadataColumns, typed \in {None, TypedLong}}

RebuildInit == ShredInit

RebuildRow(row, schema) ==
    /\ shred.op = "none"
    /\ shred' = [op |-> "rebuild", row |-> row, schema |-> schema,
                 out |-> rebuild(row, schema)]
    /\ UNCHANGED <<builder, frames, appended, last, variant, sz, step>>

RebuildNext == \E input \in RebuildInputs : RebuildRow(input.row, input.schema)

RebuildSpec == RebuildInit /\ [][RebuildNext]_vars

(***************************************************************************)
(* C25: rebuild fails with malformed when top_level_metadata_idx is        *)
(* negative or the metadata column is null, for an unshredded schema when  *)
(* the value column is null, and when at a node that reconstruction visits *)
(* the typed column is absent or null and the value column is absent or    *)
(* null.  A typed column that is present and non-null is the one used: the *)
(* value column of such a node is read only for the residual fields of an  *)
(* object, so emptying it at scalar and array nodes changes nothing.       *)
(***************************************************************************)
HasColumn(row, idx) == idx >= 0 /\ row.cols[idx + 1] # None

\* a node that reconstruction visits has neither column
RECURSIVE VariantMissing(_, _)
VariantMissing(row, schema) ==
    IF HasColumn(row, schema.typed_idx)
    THEN IF schema.scalar_schema # None THEN FALSE
         ELSE IF schema.array_schema # None
         THEN \E i \in 1..Len(row.cols[schema.typed_idx + 1][1].array) :
                 VariantMissing(row.cols[schema.typed_idx + 1][1].array[i],
                                schema.array_schema[1])
         ELSE \E i \in 1..Len(schema.object_schema[1]) :
                 LET f == row.cols[schema.typed_idx + 1][1].values[i]
                     fs == schema.object_schema[1][i].schema
                 IN /\ f # None
                    /\ HasColumn(f[1], fs.typed_idx) \/ HasColumn(f[1], fs.variant_idx)
                    /\ VariantMissing(f[1], fs)
    ELSE ~HasColumn(row, schema.variant_idx)

\* the row with the value column emptied at every scalar and array node
\* whose typed column is filled
RECURSIVE WithoutUnreadValues(_, _)
WithoutUnreadValues(row, schema) ==
    IF ~HasColumn(row, schema.typed_idx) THEN row
    ELSE IF schema.scalar_schema # None
    THEN IF schema.variant_idx >= 0 THEN [row EXCEPT !.cols[schema.variant_idx + 1] = None]
         ELSE row
    ELSE IF schema.array_schema # None
    THEN [row EXCEPT
            !.cols[schema.typed_idx + 1] =
                TypedArray([i \in 1..Len(row.cols[schema.typed_idx + 1][1].array) |->
                               WithoutUnreadValues(row.cols[schema.typed_idx + 1][1].array[i],
                                                   schema.array_schema[1])]),
            !.cols[schema.variant_idx + 1] = None]
    ELSE [row EXCEPT
            !.cols[schema.typed_idx + 1] =
                TypedObject([i \in 1..Len(schema.object_schema[1]) |->
                    IF row.cols[schema.typed_idx + 1][1].values[i] = None THEN None
                    ELSE Some(WithoutUnreadValues(row.cols[schema.typed_idx + 1][1].values[i][1],
                                                  schema.object_schema[1][i].schema))])]

RebuildMustFail(row, schema) ==
    \/ schema.top_level_metadata_idx < 0
    \/ row.cols[schema.top_level_metadata_idx + 1] = None
    \/ schema.typed_idx < 0 /\ schema.variant_idx >= 0 /\ row.cols[schema.variant_idx + 1] = None
    \/ VariantMissing(row, schema)

C25_MissingVariantIsMalformed ==
    (shred.op = "rebuild") =>
        /\ RebuildMustFail(shred.row, shred.schema) => shred.out.err = "malformed"
        /\ shred.out = rebuild(WithoutUnreadValues(shred.row, shred.schema), shred.schema)
C25_Witness ==
    /\ shred.op = "rebuild" /\ shred.out.err = "malformed"
    /\ shred.schema.array_schema # None
    /\ HasColumn(shred.row, shred.schema.top_level_metadata_idx)
    /\ HasColumn(shred.row, shred.schema.typed_idx)
    /\ Len(shred.row.cols[shred.schema.typed_idx + 1][1].array) = 2
    /\ ~VariantMissing(shred.row.cols[shred.schema.typed_idx + 1][1].array[1],
                       shred.schema.array_schema[1])
    /\ VariantMissing(shred.row.cols[shred.schema.typed_idx + 1][1].array[2],
                      shred.schema.array_schema[1])

(***************************************************************************)
(* OrderSpec: parse_json on documents that differ only in the order of     *)
(* their keys.  json.loads returns a dict, which holds every key once and  *)
(* keeps the order of the text; OrderDocs holds every ordering of each     *)
(* base document, the orderings of the nested objects included.            *)
(***************************************************************************)
KeyOrders(n) == {p \in [1..n -> 1..n] : \A i, j \in 1..n : i # j => p[i] # p[j]}

RECURSIVE Reorderings(_)
RECURSIVE ReorderedItems(_, _, _)
RECURSIVE ReorderedElements(_, _)

\* the first i items of the object under the permutation p
ReorderedItems(items, p, i) ==
    IF i = 0 THEN {<<>>}
    ELSE {Append(s, Item(items[p[i]].key, val)) :
             s \in ReorderedItems(items, p, i - 1), val \in Reorderings(items[p[i]].val)}

ReorderedElements(items, i) ==
    IF i = 0 THEN {<<>>}
    ELSE {Append(s, val) : s \in ReorderedElements(items, i - 1),
                           val \in Reorderings(items[i])}

\* the documents equal to json_data as Python values
Reorderings(json_data) ==
    IF json_data.t = "obj"
    THEN UNION {{JObj(s) : s \in ReorderedItems(json_data.items, p, Len(json_data.items))} :
                   p \in KeyOrders(Len(json_data.items))}
    ELSE IF json_data.t = "arr"
    THEN {JArr(s) : s \in ReorderedElements(json_data.items, Len(json_data.items))}
    ELSE {json_data}

\* {"z": 300, "a": -1, "m": "hi"},  {"b": {"b": 1, "a": 2}, "a": null},
\* {"a": 1, "b": [], "ab": {}, "": 2},
\* {"k": [{"y": 1, "x": null}], "K": 1, "kk": 2, "j": "hi"},
\* {"é": 1, "z": 2, "a": 3}
OrderBaseDocs ==
    { JObj(<<Item(<<122>>, JInt(300)), Item(<<97>>, JInt(-1)),
             Item(<<109>>, JStr(<<104, 105>>))>>),
      JObj(<<Item(<<98>>, JObj(<<Item(<<98>>, JInt(1)), Item(<<97>>, JInt(2))>>)),
             Item(<<97>>, JNull)>>),
      JObj(<<Item(<<97>>, JInt(1)), Item(<<98>>, JArr(<<>>)),
             Item(<<97, 98>>, JObj(<<>>)), Item(<<>>, JInt(2))>>),
      JObj(<<Item(<<107>>, JArr(<<JObj(<<Item(<<121>>, JInt(1)), Item(<<120>>, JNull)>>)>>)),
             Item(<<75>>, JInt(1)), Item(<<107, 107>>, JInt(2)),
             Item(<<106>>, JStr(<<104, 105>>))>>),
      JObj(<<Item(<<233>>, JInt(1)), Item(<<122>>, JInt(2)), Item(<<97>>, JInt(3))>>) }
OrderDocs == UNION {Reorderings(d) : d \in OrderBaseDocs}

OrderInit == CommitInit

\* parse_json once json.loads has returned json_data
ParseJson(json_data) ==
    /\ last.op = "none"
    /\ builder' = build_json(builder, json_data)
    /\ variant' = [op |-> "result", v |-> rebuild_result(build_json(builder, json_data))]
    /\ last' = [op |-> "parse_json", doc |-> json_data]
    /\ UNCHANGED <<frames, appended, sz, shred, step>>

OrderNext == \E json_data \in OrderDocs : ParseJson(json_data)

OrderSpec == OrderInit /\ [][OrderNext]_vars

(***************************************************************************)
(* C26: two JSON objects that hold the same key/value pairs in different   *)
(* key orders build objects with the same field sequence as                *)
(* get_field_at_index shows it (the keys, and the value of each field, in  *)
(* storage order), so to_json gives the same text for both.                *)
(***************************************************************************)
FieldSequence(v) ==
    [i \in 1..object_size(v).val |->
        [key |-> get_field_at_index(v, i - 1).key,
         value |-> to_json([v EXCEPT !.pos = get_field_at_index(v, i - 1).pos])]]
SameFields(v, w) ==
    /\ v.err = "none" /\ w.err = "none"
    /\ FieldSequence(v) = FieldSequence(w)
    /\ to_json(v) = to_json(w)
    /\ to_json(v).err = "none"
C26_KeyOrderInsensitive ==
    (last.op = "parse_json") =>
        \A json_data \in Reorderings(last.doc) :
            SameFields(variant.v,
                       rebuild_result(build_json(NewBuilder(builder.allow_duplicate_keys),
                                                 json_data)))
C26_Witness ==
    /\ last.op = "parse_json"
    /\ last.doc = JObj(<<Item(<<122>>, JInt(300)), Item(<<97>>, JInt(-1)),
                         Item(<<109>>, JStr(<<104, 105>>))>>)
    /\ get_field_at_index(variant.v, 0).key = <<97>>
    /\ get_field_at_index(variant.v, 1).key = <<109>>
    /\ get_field_at_index(variant.v, 2).key = <<122>>

(***************************************************************************)
(* TraverseSpec: to_json, append_variant, get_field_by_key and value_size  *)
(* one call and one loop iteration at a time, on well-formed and on        *)
(* malformed values.  frames is the stack of the containers whose loop is  *)
(* running, each with its position, its header fields, the loop index i    *)
(* and, for append_variant, the start and the entries collected so far;    *)
(* last says what comes next: the call at last.pos ("call"), the next      *)
(* iteration of the innermost loop ("loop"), or nothing ("done",           *)
(* "error").  MaxNesting stands for the recursion limit of the             *)
(* interpreter, which ends a traversal nested deeper with RecursionError.  *)
(***************************************************************************)
\* element_pos = data_start + offset
element_pos_m(data_start, offset) == offset

element_pos(data_start, offset) == data_start + offset

Frame(kind, pos, h, start) ==
    [kind |-> kind, pos |-> pos, h |-> h, i |-> 0, start |-> start, entries |-> <<>>,
     low |-> 0, high |-> h.size - 1]
Traversal ==
    [status |-> last.status, pos |-> last.pos, err |-> last.err, frames |-> frames,
     builder |-> builder]
TopFrame(t) == t.frames[Len(t.frames)]

Failed(t, e) == [t EXCEPT !.status = "error", !.err = e]
AppendFailed(t, e) == [t EXCEPT !.status = "error", !.err = e, !.builder.err = e]
Returned(t) == [t EXCEPT !.status = IF t.frames = <<>> THEN "done" ELSE "loop"]
Popped(t) == [t EXCEPT !.frames = SubSeq(@, 1, Len(@) - 1)]
Entered(t, frame) ==
    IF Len(t.frames) >= MaxNesting THEN Failed(t, "recursion_error")
    ELSE [t EXCEPT !.frames = Append(@, frame), !.status = "loop"]
Enter(t, kind, hr) ==
    IF hr.err # "none" THEN Failed(t, hr.err)
    ELSE Entered(t, Frame(kind, t.pos, hr.h, t.builder.write_pos))
\* the recursive call for the child at data_start + offset
Descend(t, offset) ==
    [t EXCEPT !.frames[Len(t.frames)].i = @ + 1, !.status = "call",
              !.pos = element_pos(TopFrame(t).h.data_start, offset)]
ReadDone(t, r) == IF r.err # "none" THEN Failed(t, r.err) ELSE Returned(t)
Written(t, b) ==
    IF b.err # "none" THEN [Failed(t, b.err) EXCEPT !.builder = b]
    ELSE Returned([t EXCEPT !.builder = b])

\* the getter that _to_json_impl calls on a scalar of the given type; the
\* text made of what it returns is not kept
scalar_getter(value, pos, variant_type) ==
    CASE variant_type = "NULL" -> [err |-> "none"]
      [] variant_type = "BOOLEAN" -> get_boolean(value, pos)
      [] variant_type \in {"LONG", "DATE", "TIMESTAMP", "TIMESTAMP_NTZ"} -> get_long(value, pos)
      [] variant_type = "STRING" -> get_string(value, pos)
      [] variant_type = "DOUBLE" -> get_double(value, pos)
      [] variant_type = "DECIMAL" -> get_decimal(value, pos)
      [] variant_type = "FLOAT" -> get_float(value, pos)
      [] variant_type = "BINARY" -> get_binary(value, pos)
      [] variant_type = "UUID" -> get_uuid(value, pos)

\* _to_json_impl at t.pos, up to the loop of the container or the getter of
\* the scalar
to_json_call(t, value, type) ==
    IF type.err # "none" THEN Failed(t, type.err)
    ELSE IF type.val = "OBJECT" THEN Enter(t, "obj", handle_object(value, t.pos))
    ELSE IF type.val = "ARRAY" THEN Enter(t, "arr", handle_array(value, t.pos))
    ELSE ReadDone(t, scalar_getter(value, t.pos, type.val))

\* one iteration of the loop of _handle_object_json / _handle_array_json
to_json_field(t, id_val, offset, key) ==
    IF id_val.err # "none" THEN Failed(t, id_val.err)
    ELSE IF offset.err # "none" THEN Failed(t, offset.err)
    ELSE IF key.err # "none" THEN Failed(t, key.err)
    ELSE Descend(t, offset.val)
to_json_element(t, offset) ==
    IF offset.err # "none" THEN Failed(t, offset.err) ELSE Descend(t, offset.val)
to_json_loop(t, value, metadata, f) ==
    IF f.i >= f.h.size THEN Returned(Popped(t))
    ELSE IF f.kind = "obj"
    THEN to_json_field(t, read_unsigned(value, f.h.id_start + f.h.id_size * f.i, f.h.id_size),
             read_unsigned(value, f.h.offset_start + f.h.offset_size * f.i, f.h.offset_size),
             get_metadata_key(metadata,
                 read_unsigned(value, f.h.id_start + f.h.id_size * f.i, f.h.id_size).val))
    ELSE to_json_element(t,
             read_unsigned(value, f.h.offset_start + f.h.offset_size * f.i, f.h.offset_size))

\* _append_variant_impl at t.pos, up to the loop of the container or the
\* copy of the scalar
append_call(t, value) ==
    IF ~check_index(t.pos, Len(value)) THEN AppendFailed(t, "malformed")
    ELSE IF basic_type_of(value, t.pos) = OBJECT
    THEN IF handle_object(value, t.pos).err # "none"
         THEN AppendFailed(t, handle_object(value, t.pos).err)
         ELSE Enter(t, "obj", handle_object(value, t.pos))
    ELSE IF basic_type_of(value, t.pos) = ARRAY
    THEN IF handle_array(value, t.pos).err # "none"
         THEN AppendFailed(t, handle_array(value, t.pos).err)
         ELSE Enter(t, "arr", handle_array(value, t.pos))
    ELSE Written(t, shallow_append_variant_impl(t.builder, value, t.pos))

\* one iteration of the loop of _append_object / _append_array, and the
\* finish_writing_* call after the last one
append_field(t, f, id_val, offset, key, ak) ==
    IF id_val.err # "none" THEN AppendFailed(t, id_val.err)
    ELSE IF offset.err # "none" THEN AppendFailed(t, offset.err)
    ELSE IF key.err # "none" THEN AppendFailed(t, key.err)
    ELSE [Descend(t, offset.val) EXCEPT
             !.builder = ak.b,
             !.frames[Len(t.frames)].entries =
                 Append(@, FieldEntry(key.val, ak.id, t.builder.write_pos - f.start))]
append_element(t, f, offset) ==
    IF offset.err # "none" THEN AppendFailed(t, offset.err)
    ELSE [Descend(t, offset.val) EXCEPT
             !.frames[Len(t.frames)].entries = Append(@, t.builder.write_pos - f.start)]
append_key(t, f, id_val, offset, key) ==
    append_field(t, f, id_val, offset, key, add_key(t.builder, key.val))
append_loop(t, value, metadata, f) ==
    IF f.i >= f.h.size
    THEN IF f.kind = "obj"
         THEN Written(Popped(t), finish_writing_object(t.builder, f.start, f.entries))
         ELSE Written(Popped(t), finish_writing_array(t.builder, f.start, f.entries))
    ELSE IF f.kind = "obj"
    THEN append_key(t, f, read_unsigned(value, f.h.id_start + f.h.id_size * f.i, f.h.id_size),
             read_unsigned(value, f.h.offset_start + f.h.offset_size * f.i, f.h.offset_size),
             get_metadata_key(metadata,
                 read_unsigned(value, f.h.id_start + f.h.id_size * f.i, f.h.id_size).val))
    ELSE append_element(t, f,
             read_unsigned(value, f.h.offset_start + f.h.offset_size * f.i, f.h.offset_size))

\* one iteration of the linear scan of _find_field
find_probe_linear(t, f, key, id_val, k, offset) ==
    IF id_val.err # "none" THEN Failed(t, id_val.err)
    ELSE IF k.err # "none" THEN Failed(t, k.err)
    ELSE IF key = k.val
    THEN IF offset.err # "none" THEN Failed(t, offset.err)
         ELSE Returned(Popped([t EXCEPT !.pos = element_pos(f.h.data_start, offset.val)]))
    ELSE [t EXCEPT !.frames[Len(t.frames)].i = @ + 1]
\* one iteration of the binary search of _find_field: str has no compare_to
find_probe_binary(t, f, key, id_val, k) ==
    IF id_val.err # "none" THEN Failed(t, id_val.err)
    ELSE IF k.err # "none" THEN Failed(t, k.err)
    ELSE Failed(t, "attribute_error")
find_linear(t, value, metadata, key, f, id_val) ==
    find_probe_linear(t, f, key, id_val, get_metadata_key(metadata, id_val.val),
        read_unsigned(value, f.h.offset_start + f.h.offset_size * f.i, f.h.offset_size))
find_binary(t, value, metadata, key, f, id_val) ==
    find_probe_binary(t, f, key, id_val, get_metadata_key(metadata, id_val.val))
find_loop(t, value, metadata, key, f) ==
    IF f.h.size < BINARY_SEARCH_THRESHOLD
    THEN IF f.i >= f.h.size THEN Returned(Popped(t))
         ELSE find_linear(t, value, metadata, key, f,
                  read_unsigned(value, f.h.id_start + f.h.id_size * f.i, f.h.id_size))
    ELSE IF ~(f.low <= f.high) THEN Returned(Popped(t))
         ELSE find_binary(t, value, metadata, key, f,
                  read_unsigned(value, f.h.id_start + f.h.id_size * ((f.low + f.high) \div 2),
                                f.h.id_size))

TraverseMetadata == CommitMetadata
\* an object of 32 fields, all of them the null at offset 0 under the id id
WideValue(id) ==
    <<2, BINARY_SEARCH_THRESHOLD>> \o [i \in 1..BINARY_SEARCH_THRESHOLD |-> id]
        \o [i \in 1..(BINARY_SEARCH_THRESHOLD + 1) |-> IF i > BINARY_SEARCH_THRESHOLD THEN 1 ELSE 0]
        \o <<0>>
\* the values of CommitValues, an object of 32 fields with ids inside and
\* outside the metadata, an object that claims 31 fields in 5 bytes, an
\* array that claims 200 elements, an array of more than 2^31 elements,
\* [[[1]]], three elements over one payload, and [[[[[1]]]]], which nests
\* deeper than MaxNesting
TraverseValues ==
    CommitValues
      \cup { WideValue(0), WideValue(9),
             <<3, 1, 0, 18, 3, 1, 0, 14, 3, 1, 0, 10, 3, 1, 0, 6, 3, 1, 0, 2, 12, 1>>,
             <<2, 31, 0, 0, 0>>,
             <<3, 200, 0, 0, 0, 0>>,
             <<19, 255, 255, 255, 255, 0, 0>>,
             <<3, 1, 0, 10, 3, 1, 0, 6, 3, 1, 0, 2, 12, 1>>,
             <<3, 3, 0, 0, 0, 2, 12, 1>> }
TraverseOps == {"to_json", "append_variant", "get_field_by_key", "value_size"}

TraverseInit == KeyInit

Running(op, status) ==
    variant.op = op /\ last.op = "traverse" /\ last.status = status

Traverse(op, value, key) ==
    /\ variant.op = "none"
    /\ op # "get_field_by_key" => key = <<97>>
    /\ variant' = [op |-> op, v |-> [NewVariant(value, TraverseMetadata) EXCEPT !.pos = 0],
                   key |-> key]
    /\ last' = [op |-> "traverse", status |-> "call", pos |-> 0, err |-> "none"]
    /\ step' = 1 - step
    /\ UNCHANGED <<builder, frames, appended, sz, shred>>

ToJsonCall ==
    /\ Running("to_json", "call")
    /\ LET t == to_json_call(Traversal, variant.v.value,
                             get_type(variant.v.value, last.pos)) IN
       /\ last' = [last EXCEPT !.status = t.status, !.err = t.err]
       /\ frames' = t.frames
    /\ step' = 1 - step
    /\ UNCHANGED <<builder, appended, variant, sz, shred>>

ToJsonLoop ==
    /\ Running("to_json", "loop")
    /\ LET t == to_json_loop(Traversal, variant.v.value, variant.v.metadata,
                             TopFrame(Traversal)) IN
       /\ last' = [last EXCEPT !.status = t.status, !.pos = t.pos, !.err = t.err]
       /\ frames' = t.frames
    /\ step' = 1 - step
    /\ UNCHANGED <<builder, appended, variant, sz, shred>>

AppendCall ==
    /\ Running("append_variant", "call")
    /\ LET t == append_call(Traversal, variant.v.value) IN
       /\ last' = [last EXCEPT !.status = t.status, !.err = t.err]
       /\ frames' = t.frames
       /\ builder' = t.builder
    /\ step' = 1 - step
    /\ UNCHANGED <<appended, variant, sz, shred>>

AppendLoop ==
    /\ Running("append_variant", "loop")
    /\ LET t == append_loop(Traversal, variant.v.value, variant.v.metadata,
                            TopFrame(Traversal)) IN
       /\ last' = [last EXCEPT !.status = t.status, !.pos = t.pos, !.err = t.err]
       /\ frames' = t.frames
       /\ builder' = t.builder
    /\ step' = 1 - step
    /\ UNCHANGED <<appended, variant, sz, shred>>

FindCall ==
    /\ Running("get_field_by_key", "call")
    /\ LET t == Enter(Traversal, "find", handle_object(variant.v.value, last.pos)) IN
       /\ last' = [last EXCEPT !.status = t.status, !.err = t.err]
       /\ frames' = t.frames
    /\ step' = 1 - step
    /\ UNCHANGED <<builder, appended, variant, sz, shred>>

FindLoop ==
    /\ Running("get_field_by_key", "loop")
    /\ LET t == find_loop(Traversal, variant.v.value, variant.v.metadata, variant.key,
                          TopFrame(Traversal)) IN
       /\ last' = [last EXCEPT !.status = t.status, !.pos = t.pos, !.err = t.err]
       /\ frames' = t.frames
    /\ step' = 1 - step
    /\ UNCHANGED <<builder, appended, variant, sz, shred>>

ValueSizeCall ==
    /\ Running("value_size", "call")
    /\ LET t == ReadDone(Traversal, value_size(variant.v.value, last.pos)) IN
       last' = [last EXCEPT !.status = t.status, !.err = t.err]
    /\ step' = 1 - step
    /\ UNCHANGED <<builder, frames, appended, variant, sz, shred>>

TraverseNext ==
    \/ \E op \in TraverseOps, value \in TraverseValues, key \in {<<97>>, <<98>>} :
           Traverse(op, value, key)
    \/ ToJsonCall
    \/ ToJsonLoop
    \/ AppendCall
    \/ AppendLoop
    \/ FindCall
    \/ FindLoop
    \/ ValueSizeCall

TraverseSpec == TraverseInit /\ [][TraverseNext]_vars
\* The interpreter's step seen through the step bit alone: it is enabled in
\* the states where an action of TraverseNext is, and every step of
\* TraverseNext is one (each action flips the bit).
InterpreterStep ==
    /\ \/ variant.op = "none"
       \/ Running(variant.op, "call")
       \/ variant.op # "value_size" /\ Running(variant.op, "loop")
    /\ step' = 1 - step
\* a call that has started runs on: the interpreter takes the next step
TraverseFairSpec == TraverseSpec /\ WF_step(InterpreterStep)

(***************************************************************************)
(* C27: on every value, well-formed or malformed, to_json, value_size,     *)
(* append_variant and get_field_by_key end with a result or an error:      *)
(* every child position a traversal visits is strictly greater than the    *)
(* position of its parent container, a loop over a decoded size does not   *)
(* go on after an out-of-bounds read, a step of the binary search shrinks  *)
(* the interval or ends the search, and every call that started finishes.  *)
(***************************************************************************)
PositionsIncrease ==
    /\ \A k \in 1..(Len(frames) - 1) : frames[k].pos < frames[k + 1].pos
    /\ (last.status = "call" /\ frames # <<>>) => frames[Len(frames)].pos < last.pos
\* the entries that the iterations 0..i-1 have read lie inside the value
LoopsInBounds ==
    \A k \in 1..Len(frames) :
        frames[k].i > 0 =>
            IF frames[k].kind = "find"
            THEN frames[k].h.id_start + frames[k].h.id_size * frames[k].i
                    <= Len(variant.v.value)
            ELSE frames[k].h.offset_start + frames[k].h.offset_size * frames[k].i
                    <= Len(variant.v.value)
TraversalFinished == last.op = "traverse" /\ last.status \in {"done", "error"}
BinarySearchStep ==
    /\ Running("get_field_by_key", "loop")
    /\ frames[Len(frames)].h.size >= BINARY_SEARCH_THRESHOLD
BinarySearchShrinks ==
    BinarySearchStep =>
        \/ TraversalFinished'
        \/ /\ Len(frames') = Len(frames)
           /\ frames'[Len(frames)].high - frames'[Len(frames)].low
                 < frames[Len(frames)].high - frames[Len(frames)].low
FinishKey(i) == <<107, 48 + (i \div 100), 48 + ((i \div 10) % 10), 48 + (i % 10)>>
Int8Child(i) == <<primitive_header(INT1), i % 100>>
NullChild(i) == <<primitive_header(NULL)>>
LongStrChild(n, c) == <<primitive_header(LONG_STR)>> \o NatBytes(n, U32_SIZE) \o [j \in 1..n |-> c]
\* no child, one child, three children, 255, 256 and 300 children (the
\* size takes 4 bytes above 255), children of 258 bytes in all (2-byte
\* offsets) and of more than 2^16 bytes in all (3-byte offsets)
FinishChildren ==
    { <<>>,
      <<NullChild(1)>>,
      [i \in 1..3 |-> Int8Child(i)],
      <<NullChild(1), LongStrChild(250, 97), Int8Child(3)>>,
      <<Int8Child(1), LongStrChild(U16_MAX, 98)>>,
      [i \in 1..U8_MAX |-> NullChild(i)],
      [i \in 1..(U8_MAX + 1) |-> NullChild(i)],
      [i \in 1..300 |-> Int8Child(i)] }
\* the values written before the container was opened
FinishPrefixes == { <<>>, Int8Child(5), LongStrChild(INITIAL_CAPACITY - 10, 99) }
\* the number of keys the dictionary held before the first field was added
FinishBaseIds == {0, U8_MAX - 1}

RECURSIVE TotalLen(_, _, _)
TotalLen(children, lo, hi) ==
    IF lo > hi THEN 0
    ELSE IF lo = hi THEN Len(children[lo])
    ELSE TotalLen(children, lo, (lo + hi) \div 2) + TotalLen(children, (lo + hi) \div 2 + 1, hi)
RECURSIVE Flattened(_, _, _)
Flattened(children, lo, hi) ==
    IF lo > hi THEN <<>>
    ELSE IF lo = hi THEN children[lo]
    ELSE Flattened(children, lo, (lo + hi) \div 2) \o Flattened(children, (lo + hi) \div 2 + 1, hi)
ChildOffsets(children) == [i \in 1..Len(children) |-> TotalLen(children, 1, i - 1)]
\* field i was added as the key number base + i - 1 of the dictionary; the
\* keys fall as the ids rise, so the sort by key reverses the entries
ChildFields(children, base) ==
    [i \in 1..Len(children) |->
        FieldEntry(FinishKey(Len(children) - i), base + i - 1, TotalLen(children, 1, i - 1))]
Prepared(allow_duplicate_keys, bytes, keys) ==
    [allow_duplicate_keys |-> allow_duplicate_keys,
     write_buffer |-> bytearray([i \in 1..grown_capacity(INITIAL_CAPACITY, 0, Len(bytes)) |->
                                    IF i <= Len(bytes) THEN bytes[i] ELSE 0]),
     write_pos |-> Len(bytes),
     dictionary_keys |-> keys,
     err |-> "none"]
PreparedObject(allow_duplicate_keys, prefix, children, base) ==
    Prepared(allow_duplicate_keys, prefix \o Flattened(children, 1, Len(children)),
             [j \in 1..(base + Len(children)) |-> FinishKey(base + Len(children) - j)])
PreparedArray(prefix, children) ==
    Prepared(FALSE, prefix \o Flattened(children, 1, Len(children)), <<>>)

\* of the objects of more than three fields one is prepared: 256 fields
\* with ids above 255, after one earlier value
WideFields(prefix, children, base) ==
    Len(children) > 3 =>
        Len(children) = U8_MAX + 1 /\ prefix = Int8Child(5) /\ base = U8_MAX - 1

FinishInit ==
    /\ \E prefix \in FinishPrefixes, children \in FinishChildren :
          \/ \E allow_duplicate_keys \in BOOLEAN, base \in FinishBaseIds :
                /\ WideFields(prefix, children, base)
                /\ builder = PreparedObject(allow_duplicate_keys, prefix, children, base)
                /\ frames = <<[kind |-> "obj", start |-> Len(prefix),
                               fields |-> ChildFields(children, base), offsets |-> <<>>]>>
          \/ /\ builder = PreparedArray(prefix, children)
             /\ frames = <<[kind |-> "arr", start |-> Len(prefix),
                            fields |-> <<>>, offsets |-> ChildOffsets(children)]>>
    /\ appended = 0
    /\ last = NoLast
    /\ variant = [op |-> "none"]
    /\ sz = [op |-> "none"]
    /\ shred = [op |-> "none"]
    /\ step = 0

FinishNext ==
    \/ FinishObject
    \/ FinishArray

FinishSpec == FinishInit /\ [][FinishNext]_vars

StoredAt(buf, pos, width) == LEVal(Slice(buf, pos, width))
DistinctFieldKeys(fields) ==
    \A i, j \in 1..Len(fields) : i < j => fields[i].key # fields[j].key
GreatestId(ids) ==
    IF ids = <<>> THEN 0 ELSE CHOOSE m \in {ids[i] : i \in 1..Len(ids)} : \A i \in 1..Len(ids) : ids[i] <= m
\* the child that was appended at offset is found, byte for byte, at the
\* same offset from data_start
SameChild(before, after, start, data_start, offset, child_size) ==
    /\ child_size.err = "none"
    /\ value_size(after.write_buffer, data_start + offset) = child_size
    /\ Slice(after.write_buffer, data_start + offset, child_size.val)
          = Slice(before.write_buffer, start + offset, child_size.val)
\* the header that finish_writing_object (ids given) or finish_writing_array
\* (id_size 0) has put in front of the children
HeaderWritten(before, after, start, size, data_size, size_bytes, id_size, offset_size, ids, offsets) ==
    /\ after.write_pos
          = before.write_pos + 1 + size_bytes + size * id_size + (size + 1) * offset_size
    /\ Len(after.write_buffer) >= after.write_pos
    /\ \A p \in 1..start : after.write_buffer[p] = before.write_buffer[p]
    /\ \A q \in 1..data_size :
          after.write_buffer[after.write_pos - data_size + q] = before.write_buffer[start + q]
    /\ \A i \in 1..size :
          /\ SameChild(before, after, start, after.write_pos - data_size, offsets[i],
                       value_size(before.write_buffer, start + offsets[i]))
          /\ IF id_size = 0
             THEN StoredAt(after.write_buffer, start + 1 + size_bytes + (i - 1) * offset_size,
                           offset_size) = offsets[i]
             ELSE \E k \in 0..(size - 1) :
                     /\ StoredAt(after.write_buffer, start + 1 + size_bytes + k * id_size,
                                 id_size) = ids[i]
                     /\ StoredAt(after.write_buffer,
                                 start + 1 + size_bytes + size * id_size + k * offset_size,
                                 offset_size) = offsets[i]
    /\ StoredAt(after.write_buffer,
                start + 1 + size_bytes + size * id_size + size * offset_size, offset_size)
          = data_size
FinishedObject ==
    /\ last.op = "finish_object" /\ builder.err = "none" /\ DistinctFieldKeys(last.fields)
FinishedArray == last.op = "finish_array" /\ builder.err = "none"

\* C28: finish_writing_array, and finish_writing_object on fields of distinct
\* keys, leave the bytes below start as they were, move the children
\* unchanged to start + header_size and raise write_pos by header_size =
\* 1 + size_bytes + size*id_size + (size+1)*offset_size (no ids in an array),
\* size_bytes 4 iff size > 255, id_size and offset_size the least widths of
\* max_id and data_size; every child is found unchanged through its stored
\* offset and the last offset is data_size.
C28_FinishWritingEffect ==
    /\ FinishedObject =>
          HeaderWritten(last.before, builder, last.start, Len(last.fields),
                        last.before.write_pos - last.start,
                        IF Len(last.fields) > 255 THEN 4 ELSE 1,
                        MinWidth(GreatestId([i \in 1..Len(last.fields) |-> last.fields[i].id])),
                        MinWidth(last.before.write_pos - last.start),
                        [i \in 1..Len(last.fields) |-> last.fields[i].id],
                        [i \in 1..Len(last.fields) |-> last.fields[i].offset])
    /\ FinishedArray =>
          HeaderWritten(last.before, builder, last.start, Len(last.offsets),
                        last.before.write_pos - last.start,
                        IF Len(last.offsets) > 255 THEN 4 ELSE 1,
                        0,
                        MinWidth(last.before.write_pos - last.start),
                        <<>>, last.offsets)
\* an object of 256 fields with ids above 255 and 2-byte offsets has been
\* finished after an earlier value, and the buffer has grown
C28_Witness ==
    /\ FinishedObject
    /\ Len(last.fields) > 255 /\ last.start > 0
    /\ last.fields[Len(last.fields)].id > 255
    /\ last.before.write_pos - last.start > 255
    /\ Len(builder.write_buffer) > Len(last.before.write_buffer)

(***************************************************************************)
(* The write buffer at two scales.  A builder of small values keeps its    *)
(* bytes (builder); a builder of values of up to 2^24 bytes keeps its      *)
(* sizes only (sz, the operations of SizeSpec).  A behaviour is of one     *)
(* scale: the operations on the bytes run while sz is as SizeInit left it, *)
(* the operations on the sizes while builder is new.                       *)
(***************************************************************************)
\* lengths of binary values: empty, one that fills the new buffer to its
\* last byte, one byte more, and one that takes the buffer past 1024
BinarySizes == {0, INITIAL_CAPACITY - 1 - U32_SIZE, INITIAL_CAPACITY - U32_SIZE, 1000}

CapacityInit == SizeInit

OnBytes == sz.ops = 0
OnSizes == builder = NewBuilder(FALSE) /\ frames = <<>> /\ last = NoLast

AppendBinary(n) ==
    /\ OnBytes /\ Building /\ (InArray \/ AtRoot) /\ appended < MaxValues
    /\ builder' = append_binary(builder, [i \in 1..n |-> 1 + (i % 7)])
    /\ frames' = IF InArray THEN WithElement ELSE frames
    /\ appended' = appended + 1
    /\ last' = [op |-> "append_binary", additional |-> 1 + U32_SIZE + n, before |-> builder]
    /\ UNCHANGED <<variant, sz, shred, step>>

\* the operations on the bytes
FieldOnBytes(key, val) == OnBytes /\ AppendField(key, val)
OpenOnBytes(kind) == OnBytes /\ OpenElement(kind)
FinishObjectOnBytes == OnBytes /\ FinishObject
FinishArrayOnBytes == OnBytes /\ FinishArray
\* the operations on the sizes
ValueOnSizes(additional) == OnSizes /\ SzAppendValue(additional)
FieldOnSizes(key, additional) == OnSizes /\ SzAppendField(key, additional)
OpenOnSizes(kind) == OnSizes /\ SzOpen(kind)
FinishObjectOnSizes == OnSizes /\ SzFinishObject
FinishArrayOnSizes == OnSizes /\ SzFinishArray
ResultOnSizes == OnSizes /\ SzResult

CapacityNext ==
    \/ \E n \in BinarySizes : AppendBinary(n)
    \/ \E key \in {KeyA, KeyB}, val \in ScalarValues : FieldOnBytes(key, val)
    \/ \E kind \in {"obj", "arr"} : OpenOnBytes(kind)
    \/ FinishObjectOnBytes
    \/ FinishArrayOnBytes
    \/ \E additional \in ValueSizes : ValueOnSizes(additional)
    \/ \E key \in KeySizes, additional \in ValueSizes : FieldOnSizes(key, additional)
    \/ \E kind \in {"obj", "arr"} : OpenOnSizes(kind)
    \/ FinishObjectOnSizes
    \/ FinishArrayOnSizes
    \/ ResultOnSizes

CapacitySpec == CapacityInit /\ [][CapacityNext]_vars

IsPowerOfTwo(n) == \E k \in 0..24 : n = 2 ^ k
SmallestPowerOfTwo(capacity, required) ==
    IsPowerOfTwo(capacity) /\ capacity >= required /\ capacity \div 2 < required
WithinBuffer(write_pos, capacity) ==
    0 <= write_pos /\ write_pos <= capacity /\ capacity <= SIZE_LIMIT
\* the capacity stays or becomes the least power of two that holds required
CapacityGrows(capacity, new_capacity, required) ==
    /\ new_capacity >= capacity
    /\ new_capacity # capacity => SmallestPowerOfTwo(new_capacity, required)
\* the bytes that were below write_pos are in the new buffer: in place, and
\* above start moved up by the header a finish_writing_* has put there
BytesKept(before, after, start) ==
    \A p \in 1..before.write_pos :
        after.write_buffer[IF p > start THEN p + (after.write_pos - before.write_pos) ELSE p]
            = before.write_buffer[p]
BufferStep ==
    /\ CapacityGrows(Len(builder.write_buffer), Len(builder'.write_buffer),
                     IF last'.op = "append_binary"
                     THEN builder.write_pos + last'.additional ELSE builder'.write_pos)
    /\ builder'.err = "none" =>
          BytesKept(builder, builder',
                    IF last'.op \in {"finish_object", "finish_array"} THEN last'.start
                    ELSE builder.write_pos)
    /\ CapacityGrows(sz.capacity, sz'.capacity, sz'.write_pos)

\* C29: after every operation of the builder 0 <= write_pos <=
\* len(write_buffer) <= 2^24; the capacity never shrinks, and a capacity
\* that has grown is the least power of two >= write_pos + the additional
\* bytes asked for, the bytes below write_pos being kept.
C29_BufferCapacity ==
    /\ [](/\ WithinBuffer(builder.write_pos, Len(builder.write_buffer))
          /\ WithinBuffer(sz.write_pos, sz.capacity))
    /\ [][BufferStep]_vars
\* a binary value has made the buffer grow over the bytes of an earlier
\* element of an open array
C29_Witness ==
    /\ last.op = "append_binary" /\ builder.err = "none"
    /\ frames # <<>> /\ last.before.write_pos > frames[1].start
    /\ Len(builder.write_buffer) > Len(last.before.write_buffer)
    /\ Len(last.before.write_buffer) > INITIAL_CAPACITY

(***************************************************************************)
(* The values the builder writes: every scalar append as the first value   *)
(* (at the root or in nested arrays), then fields and elements, containers *)
(* opened and finished, and whole documents, as in Spec.                   *)
(***************************************************************************)
Call(op, arg) == [op |-> op, arg |-> arg]
WrittenScalars ==
    { Call("append_null", 0), Call("append_boolean", TRUE), Call("append_boolean", FALSE),
      Call("append_long", FromInt(1)), Call("append_long", FromInt(300)),
      Call("append_long", FromInt(70000)), Call("append_long", MaxInt64),
      Call("append_long", FromInt(-1)),
      Call("append_double", <<0, 0, 0, 0, 0, 0, 12, 64>>),
      Call("append_decimal", Dec(0, <<3, 5>>, -1)),
      Call("append_decimal", Dec(0, Digits123(10), 0)),
      Call("append_decimal", Dec(0, Digits123(19), -1)),
      Call("append_decimal", Dec(0, Digits123(28), -3)),
      Call("append_date", FromInt(19000)),
      Call("append_timestamp", Pow2(50)),
      Call("append_timestamp_ntz", FromInt(-1)),
      Call("append_float", <<0, 0, 96, 64>>),
      Call("append_uuid", [i \in 1..16 |-> i]),
      Call("append_binary", <<>>), Call("append_binary", <<1, 2, 3>>),
      Call("append_string", <<>>), Call("append_string", <<104, 105>>),
      Call("append_string", [i \in 1..MAX_SHORT_STR_SIZE |-> 97]),
      Call("append_string", [i \in 1..(MAX_SHORT_STR_SIZE + 1) |-> 97]) }

append_scalar(b, op, arg) ==
    CASE op = "append_null" -> append_null(b)
      [] op = "append_boolean" -> append_boolean(b, arg)
      [] op = "append_long" -> append_long(b, arg)
      [] op = "append_double" -> append_double(b, arg)
      [] op = "append_decimal" -> append_decimal(b, arg)
      [] op = "append_date" -> append_date(b, arg)
      [] op = "append_timestamp" -> append_timestamp(b, arg)
      [] op = "append_timestamp_ntz" -> append_timestamp_ntz(b, arg)
      [] op = "append_float" -> append_float(b, arg)
      [] op = "append_uuid" -> append_uuid(b, arg)
      [] op = "append_binary" -> append_binary(b, arg)
      [] OTHER -> append_string(b, arg)

WriteInit == Init

\* a scalar as the first value the builder writes
WriteScalar(call) ==
    /\ Building /\ builder.write_pos = 0 /\ appended < MaxValues
    /\ frames = <<>> \/ InArray
    /\ builder' = append_scalar(builder, call.op, call.arg)
    /\ frames' = IF InArray THEN WithElement ELSE frames
    /\ appended' = appended + 1
    /\ last' = [op |-> "write_scalar", call |-> call, pos |-> builder.write_pos]
    /\ UNCHANGED <<variant, sz, shred, step>>

WriteNext ==
    \/ \E call \in WrittenScalars : WriteScalar(call)
    \/ \E key \in {KeyA, KeyB}, val \in ScalarValues : AppendField(key, val)
    \/ \E val \in ScalarValues : AppendElement(val)
    \/ \E key \in {KeyA, KeyB}, kind \in {"obj", "arr"} : OpenField(key, kind)
    \/ \E kind \in {"obj", "arr"} : OpenElement(kind)
    \/ FinishObject
    \/ FinishArray
    \/ \E doc \in JsonDocs : BuildJson(doc)

WriteSpec == WriteInit /\ [][WriteNext]_vars

\* the offsets of a container, the last one included
StoredOffsets(buf, h) ==
    [i \in 1..(h.size + 1) |->
        read_unsigned(buf, h.offset_start + (i - 1) * h.offset_size, h.offset_size).val]
\* the children start at distinct offsets and each ends where another one
\* starts or where the data ends: no gap, no overlap
ChildrenTile(buf, h, offsets) ==
    /\ \A i, j \in 1..h.size : offsets[i] = offsets[j] => i = j
    /\ {offsets[i] + value_size(buf, h.data_start + offsets[i]).val : i \in 1..h.size} \cup {0}
          = {offsets[i] : i \in 1..(h.size + 1)}
RECURSIVE Tiled(_, _)
ContainerTiled(buf, pos, hr, size) ==
    /\ hr.err = "none"
    /\ size = hr.h.data_start - pos + StoredOffsets(buf, hr.h)[hr.h.size + 1]
    /\ ChildrenTile(buf, hr.h, StoredOffsets(buf, hr.h))
    /\ \A i \in 1..hr.h.size : Tiled(buf, hr.h.data_start + StoredOffsets(buf, hr.h)[i])
\* value_size holds for the value at pos and for every value inside it
Tiled(buf, pos) ==
    /\ value_size(buf, pos).err = "none"
    /\ value_size(buf, pos).val >= 1
    /\ basic_type_of(buf, pos) = OBJECT =>
          ContainerTiled(buf, pos, handle_object(buf, pos), value_size(buf, pos).val)
    /\ basic_type_of(buf, pos) = ARRAY =>
          ContainerTiled(buf, pos, handle_array(buf, pos), value_size(buf, pos).val)
WrittenAt(pos) ==
    /\ value_size(builder.write_buffer, pos) = [err |-> "none", val |-> builder.write_pos - pos]
    /\ Tiled(builder.write_buffer, pos)

\* C30: value_size at the start of a value the builder has written is the
\* number of bytes written for it, write_pos - start; for a container that
\* is data_start - start + the last offset, and the children of every
\* container fill its data without gap or overlap.
C30_ValueSizeIsBytesWritten ==
    builder.err = "none" =>
        /\ last.op \in {"write_scalar", "append_field", "append_element", "build_json"} =>
              WrittenAt(last.pos)
        /\ last.op \in {"finish_object", "finish_array"} => WrittenAt(last.start)
\* an array of a long string and a short one has been finished inside an
\* open array
C30_Witness ==
    /\ last.op = "finish_array" /\ builder.err = "none" /\ frames # <<>>
    /\ Len(last.offsets) = 2 /\ last.offsets[2] = 1 + U32_SIZE + MAX_SHORT_STR_SIZE + 1
    /\ builder.write_pos = 1 + 1 + 3 + last.offsets[2] + 3

====
